---- MODULE Spec2Model ----
(***************************************************************************)
(* SelectTranslate: the translation engine (core/translator.py), the       *)
(* backends (core/providers), the window positioner and the cursor query   *)
(* (utils/positioning.py), the settings (config.py, ui/config_window.py),  *)
(* the window's translation requests (ui/main_window.py) and the clipboard *)
(* monitor (core/clipboard.py) as state machines.                          *)
(*                                                                         *)
(* Python values are modelled as follows.  An optional integer argument is *)
(* a sequence: <<>> is None and <<v>> is the integer v.  A str is a        *)
(* sequence of one-character strings where its characters matter (the text *)
(* handed to translate) and a TLA+ string otherwise.  A dict is a function *)
(* from its keys.                                                          *)
(***************************************************************************)
EXTENDS Integers, Sequences, FiniteSets, TLC

VARIABLES
    \* ---- core/translator.py: one TranslationEngine, a caller thread and
    \* ---- a translation worker thread (ui/main_window.py, _translate_text)
    eng_ctor,       \* the arguments TranslationEngine.__init__ was given
    heap,           \* the backend objects constructed so far, by identity
    engine,         \* the engine's fields; engine.provider is a heap index
    sw,             \* the caller thread's switch_provider call
    gap,            \* the caller thread's get_available_providers call
    tr,             \* the worker thread's translate call
    switches,       \* how many switch_provider calls have been started
    \* ---- utils/positioning.py: one WindowPositioner and one call on it
    pos_ctor,       \* the arguments WindowPositioner.__init__ was given
    positioner,     \* the positioner's fields after __init__
    pos_args,       \* the arguments of calculate_window_position
    pos_pc,         \* "ready" before the call, "returned" after it
    pos_result,     \* the (new_x, new_y) the call returned
    pos_again,      \* the (new_x, new_y) a repeated call returned
    \* ---- core/providers: one call that goes through the active backend to
    \* ---- the outside (a subprocess or an HTTP request)
    bc,             \* the call, the outbound calls it made, and its result
    \* ---- config.py, ui/config_window.py: the shared provider settings,
    \* ---- the user's settings file and the backends constructed from them
    cfg,            \* the dict objects, PROVIDER_CONFIGS, the file, the backends
    \* ---- utils/positioning.py, ui/main_window.py: one query of the cursor
    \* ---- position and the placement of the window that follows it
    cur,            \* the query, what it returned and where the window went
    \* ---- ui/main_window.py: the translation requests of the window, their
    \* ---- worker threads and the callbacks posted to the UI thread
    ui,             \* the requests, the workers, the idle queue, the display
    \* ---- core/clipboard.py: one ClipboardMonitor and its loop threads
    cm              \* the monitor's fields, its threads and its caller

eng_vars == <<eng_ctor, heap, engine, sw, gap, tr, switches>>

pos_vars == <<pos_ctor, positioner, pos_args, pos_pc, pos_result, pos_again>>

bk_vars == <<bc>>

app_vars == <<cfg, cur, ui, cm>>

vars == <<eng_ctor, heap, engine, sw, gap, tr, switches,
          pos_ctor, positioner, pos_args, pos_pc, pos_result, pos_again, bc,
          cfg, cur, ui, cm>>

(***************************************************************************)
(* Bounds of the model.                                                    *)
(***************************************************************************)
\* Vertical coordinates and sizes of the small grid run up to MaxY.
MaxY == 6
\* The texts handed to translate have at most MaxTextLen characters.
MaxTextLen == 2
\* switch_provider is called at most MaxSwitches times (every successful
\* call adds a backend object to the heap).
MaxSwitches == 2
\* The texts whose words are counted have at most MaxWordTextLen characters.
MaxWordTextLen == 4
\* At most MaxBackends backends are constructed from the provider settings.
MaxBackends == 3
\* The window is asked for at most MaxRequests translations.
MaxRequests == 3
\* A ClipboardMonitor starts at most MaxLoops loop threads, which read the
\* selection at most MaxPolls times in all.
MaxLoops == 2
MaxPolls == 3

(***************************************************************************)
(* config.py                                                               *)
(***************************************************************************)
POSITIONING_CONFIG ==
    [cursor_tool |-> "xdotool", text_height |-> 25, margin |-> 15,
     title_bar_height |-> 30, keep_above_duration |-> 3000]

WINDOW_CONFIG ==
    [default_width |-> 420, default_height |-> 320]

(***************************************************************************)
(* utils/positioning.py                                                    *)
(***************************************************************************)
\* Python's `arg or default` on an optional integer: None and 0 are falsy.
OrDefault(arg, default) ==
    IF arg = <<>> \/ arg[1] = 0 THEN default ELSE arg[1]

\* WindowPositioner.__init__: the fields of the new positioner.
WindowPositioner(text_height, margin, title_bar_height) ==
    [text_height      |-> OrDefault(text_height, POSITIONING_CONFIG.text_height),
     margin           |-> OrDefault(margin, POSITIONING_CONFIG.margin),
     title_bar_height |-> OrDefault(title_bar_height,
                                    POSITIONING_CONFIG.title_bar_height)]

\* The tie cursor_y = screen_middle sent to the lower-half branch.
calculate_window_position_strict_half(self, cursor_x, cursor_y, window_width, window_height, screen_width, screen_height) ==
    LET screen_middle == screen_height \div 2
        y0 == IF cursor_y < screen_middle
              THEN cursor_y + self.text_height + self.margin
              ELSE cursor_y - self.text_height - window_height
                   - (self.margin * 2) - self.title_bar_height
        x1 == IF cursor_x + window_width > screen_width
              THEN screen_width - window_width - 10
              ELSE cursor_x
        y1 == IF y0 < 0 THEN self.margin
              ELSE IF y0 + window_height > screen_height
                   THEN screen_height - window_height - self.margin
                   ELSE y0
    IN  <<x1, y1>>

\* The lower-half branch left out: the popup always goes below the text.
calculate_window_position_always_below(self, cursor_x, cursor_y, window_width, window_height, screen_width, screen_height) ==
    LET y0 == cursor_y + self.text_height + self.margin
        x1 == IF cursor_x + window_width > screen_width
              THEN screen_width - window_width - 10
              ELSE cursor_x
        y1 == IF y0 < 0 THEN self.margin
              ELSE IF y0 + window_height > screen_height
                   THEN screen_height - window_height - self.margin
                   ELSE y0
    IN  <<x1, y1>>

\* The horizontal clamp inset by the margin instead of the fixed 10.
calculate_window_position_margin_inset(self, cursor_x, cursor_y, window_width, window_height, screen_width, screen_height) ==
    LET screen_middle == screen_height \div 2
        y0 == IF cursor_y <= screen_middle
              THEN cursor_y + self.text_height + self.margin
              ELSE cursor_y - self.text_height - window_height
                   - (self.margin * 2) - self.title_bar_height
        x1 == IF cursor_x + window_width > screen_width
              THEN screen_width - window_width - self.margin
              ELSE cursor_x
        y1 == IF y0 < 0 THEN self.margin
              ELSE IF y0 + window_height > screen_height
                   THEN screen_height - window_height - self.margin
                   ELSE y0
    IN  <<x1, y1>>

\* A popup above the top edge moved to y = 0 instead of y = margin.
calculate_window_position_top_at_zero(self, cursor_x, cursor_y, window_width, window_height, screen_width, screen_height) ==
    LET screen_middle == screen_height \div 2
        y0 == IF cursor_y <= screen_middle
              THEN cursor_y + self.text_height + self.margin
              ELSE cursor_y - self.text_height - window_height
                   - (self.margin * 2) - self.title_bar_height
        x1 == IF cursor_x + window_width > screen_width
              THEN screen_width - window_width - 10
              ELSE cursor_x
        y1 == IF y0 < 0 THEN 0
              ELSE IF y0 + window_height > screen_height
                   THEN screen_height - window_height - self.margin
                   ELSE y0
    IN  <<x1, y1>>

\* WindowPositioner.calculate_window_position.  Python's // is floor
\* division, as is \div.
calculate_window_position(self, cursor_x, cursor_y, window_width, window_height, screen_width, screen_height) ==
    LET screen_middle == screen_height \div 2
        \* lines 84-90: below the text in the upper half, above it otherwise
        y0 == IF cursor_y <= screen_middle
              THEN cursor_y + self.text_height + self.margin
              ELSE cursor_y - self.text_height - window_height
                   - (self.margin * 2) - self.title_bar_height
        \* lines 93-94
        x1 == IF cursor_x + window_width > screen_width
              THEN screen_width - window_width - 10
              ELSE cursor_x
        \* lines 96-99
        y1 == IF y0 < 0 THEN self.margin
              ELSE IF y0 + window_height > screen_height
                   THEN screen_height - window_height - self.margin
                   ELSE y0
    IN  <<x1, y1>>

(***************************************************************************)
(* Python values of the engine's interface.                                *)
(***************************************************************************)
\* dict.update(other) and dict.get(key, default) on dicts as functions.
Update(d, other) ==
    [k \in DOMAIN d \cup DOMAIN other |->
        IF k \in DOMAIN other THEN other[k] ELSE d[k]]

Get(d, key, default) == IF key \in DOMAIN d THEN d[key] ELSE default

EmptyDict == [k \in {} |-> 0]

\* The values a caller passes as `config`: None, a dict, or (from a user
\* configuration file whose entry is a JSON array) a list of strings.
PyNone == [type |-> "NoneType"]
PyDict(d) == [type |-> "dict", items |-> d]
PyList(l) == [type |-> "list", elems |-> l]

\* Python truthiness of such a value.
Truthy(v) ==
    CASE v.type = "NoneType" -> FALSE
      [] v.type = "dict" -> DOMAIN v.items # {}
      [] v.type = "list" -> v.elems # <<>>

\* A provider name that is no str but an unhashable value (the list []):
\* `name in PROVIDER_CONFIGS` raises TypeError on it.
UnhashableName == "[]"

\* The outcome of a call: a returned value or a raised exception.
Returns(v) == [raised |-> FALSE, value |-> v]
Raises(e) == [raised |-> TRUE, error |-> e]

(***************************************************************************)
(* config.py: the translation defaults and the provider set.  The          *)
(* supported_pairs entries, which no code reads, are left out.  An api_key *)
(* of None is <<>>.                                                        *)
(***************************************************************************)
TRANSLATION_CONFIG ==
    [provider |-> "apertium", language_pair |-> "eng-spa",
     source_lang |-> "en", target_lang |-> "es", timeout |-> 10]

PROVIDER_CONFIGS ==
    [apertium |->
        [engine |-> "apertium", language_pair |-> "eng-spa", timeout |-> 10,
         description |-> "Local offline translation using Apertium",
         requires_internet |-> FALSE],
     google |->
        [api_key |-> <<>>,
         service_url |-> "https://translate.googleapis.com/translate_v2",
         timeout |-> 15,
         description |-> "Google Translate API (requires API key for high volume)",
         requires_internet |-> TRUE],
     libretranslate |->
        [service_url |-> "https://libretranslate.de/translate",
         api_key |-> <<>>, timeout |-> 15,
         description |-> "LibreTranslate - Free and open source translation",
         requires_internet |-> TRUE]]

(***************************************************************************)
(* core/providers: what the engine uses of a backend object.               *)
(***************************************************************************)
\* TranslationProvider.__init__ and the subclasses' __init__: the new
\* backend object of class cls built from config.
TranslationProvider(cls, config) ==
    [cls |-> cls, config |-> config,
     timeout |-> Get(config, "timeout", 10),
     description |-> Get(config, "description", "Unknown provider"),
     requires_internet |-> Get(config, "requires_internet", TRUE)]

\* What the probe's outbound call can do: the subprocess of the Apertium
\* backend, the HTTP request of the remote backends.
SubprocessOutcomes ==
    {"exit0", "exit1", "FileNotFoundError", "TimeoutExpired", "PermissionError"}
HttpOutcomes == {"200", "500", "URLError"}

ProbeOutcomes(cls) ==
    IF cls = "ApertiumProvider" THEN SubprocessOutcomes ELSE HttpOutcomes

\* is_available of a backend of class cls whose outbound call ends in
\* `outcome`.  ApertiumProvider catches FileNotFoundError and TimeoutExpired
\* only; GoogleProvider and LibreTranslateProvider catch every Exception.
is_available(cls, outcome) ==
    IF cls = "ApertiumProvider"
    THEN CASE outcome = "exit0" -> Returns(TRUE)
           [] outcome = "exit1" -> Returns(FALSE)
           [] outcome \in {"FileNotFoundError", "TimeoutExpired"} -> Returns(FALSE)
           [] OTHER -> Raises(outcome)
    ELSE Returns(outcome = "200")

(***************************************************************************)
(* core/translator.py                                                      *)
(***************************************************************************)
ProviderClass(name) ==
    CASE name = "apertium" -> "ApertiumProvider"
      [] name = "google" -> "GoogleProvider"
      [] name = "libretranslate" -> "LibreTranslateProvider"

\* An unknown name raises KeyError instead of falling back to Apertium.
create_provider_rejecting(config, provider_name) ==
    IF provider_name = UnhashableName
    THEN Raises("TypeError")
    ELSE IF provider_name \notin DOMAIN PROVIDER_CONFIGS
         THEN Raises("KeyError")
         ELSE Returns(TranslationProvider(ProviderClass(provider_name),
                          Update(PROVIDER_CONFIGS[provider_name], config)))

\* TranslationEngine._create_provider on an engine whose override config is
\* `config`: the new backend object, or the exception raised.
create_provider(config, provider_name) ==
    IF provider_name = UnhashableName
    THEN Raises("TypeError")                                  \* line 40
    ELSE LET name == IF provider_name \notin DOMAIN PROVIDER_CONFIGS
                     THEN "apertium"                          \* lines 40-43
                     ELSE provider_name
             provider_config == Update(PROVIDER_CONFIGS[name], config)
         IN  Returns(TranslationProvider(ProviderClass(name), provider_config))

\* The new backend written over the active backend object.
InstallProviderInPlace(h, active, obj) ==
    [heap |-> [h EXCEPT ![active] = obj], provider |-> active]

\* `self.provider = <new object>`: the object joins the heap under a fresh
\* identity and the engine's reference is set to it.
InstallProvider(h, active, obj) ==
    [heap |-> Append(h, obj), provider |-> Len(h) + 1]

\* TranslationEngine.__init__(provider, config), with the language
\* arguments left to their defaults: the engine and its heap.  When
\* _create_provider raises, __init__ raises: no backend and no engine exist.
TranslationEngine(provider, config) ==
    LET provider_name == IF provider = <<>> THEN TRANSLATION_CONFIG.provider
                         ELSE provider[1]
        override == IF Truthy(config) THEN config.items ELSE EmptyDict
        created == create_provider(override, provider_name)
    IN  [heap |-> IF created.raised THEN <<>> ELSE <<created.value>>,
         engine |-> [provider_name |-> provider_name,
                     source_lang |-> TRANSLATION_CONFIG.source_lang,
                     target_lang |-> TRANSLATION_CONFIG.target_lang,
                     config |-> override,
                     provider |-> IF created.raised THEN 0 ELSE 1]]

\* ---- translate -----------------------------------------------------------
\* The characters str.strip() removes, among those the texts are made of.
Whitespace == {" ", "\t", "\n"}
Chars == {" ", "a"}

Texts == UNION {[1..n -> Chars] : n \in 0..MaxTextLen}

RECURSIVE LStrip(_)
LStrip(t) ==
    IF t # <<>> /\ Head(t) \in Whitespace THEN LStrip(Tail(t)) ELSE t

RECURSIVE RStrip(_)
RStrip(t) ==
    IF t # <<>> /\ t[Len(t)] \in Whitespace
    THEN RStrip(SubSeq(t, 1, Len(t) - 1)) ELSE t

\* str.strip()
Strip(t) == RStrip(LStrip(t))

\* `not text` in place of `not text.strip()`.
IsEmptyText(text) == text = <<>>

\* The test of line 67: `not text.strip()`.
IsBlankText(text) == Strip(text) = <<>>

\* What the active backend's translate can do with a text: return a
\* (success, result) pair or raise.  A message is the sequence of the
\* pieces it is formatted from.
BackendOutcomes ==
    {Returns([success |-> TRUE, message |-> <<"hola">>]),
     Returns([success |-> FALSE, message |-> <<"Translation timeout">>]),
     Raises("boom")}

\* The result of translate once the backend call has ended, as the caller
\* sees it: lines 72-83 with the handler of line 81 left out.
TranslateResultUncaught(outcome) ==
    IF outcome.raised
    THEN [raised |-> TRUE, success |-> FALSE, message |-> <<outcome.error>>]
    ELSE [raised |-> FALSE, success |-> outcome.value.success,
          message |-> outcome.value.message]

\* The result of translate once the backend call has ended: lines 72-83.
TranslateResult(outcome) ==
    IF outcome.raised
    THEN [raised |-> FALSE, success |-> FALSE,
          message |-> <<"Unexpected error: ", outcome.error>>]
    ELSE [raised |-> FALSE, success |-> outcome.value.success,
          message |-> outcome.value.message]

EmptyTextResult ==
    [raised |-> FALSE, success |-> FALSE, message |-> <<"Empty text provided">>]

NoResult == [raised |-> FALSE, success |-> FALSE, message |-> <<>>]
NoObject == [cls |-> "", config |-> EmptyDict]

TrIdle ==
    [pc |-> "idle", text |-> <<>>, start_provider |-> 0, overtaken |-> FALSE,
     dispatched |-> FALSE, backend |-> 0,
     seen |-> NoObject, used |-> NoObject,
     outcome |-> Returns(NoResult), result |-> NoResult]

\* translate is called: line 67.  start_provider records the backend that
\* is active at this moment.  (The debug line 71, which reads
\* self.provider_name for the log only, is not modelled.)
TranslateCall(text) ==
    /\ tr.pc = "idle"
    /\ tr' = IF IsBlankText(text)
             THEN [TrIdle EXCEPT !.pc = "done", !.text = text,
                                 !.start_provider = engine.provider,
                                 !.result = EmptyTextResult]
             ELSE [TrIdle EXCEPT !.pc = "l72", !.text = text,
                                 !.start_provider = engine.provider]
    /\ UNCHANGED <<eng_ctor, heap, engine, sw, gap, switches, pos_vars, bk_vars, app_vars>>

\* line 72: self.provider is read and its translate is entered.
TranslateDispatch ==
    /\ tr.pc = "l72"
    /\ tr' = [tr EXCEPT !.pc = "backend", !.dispatched = TRUE,
                        !.backend = engine.provider,
                        !.seen = [cls |-> heap[engine.provider].cls,
                                  config |-> heap[engine.provider].config]]
    /\ UNCHANGED <<eng_ctor, heap, engine, sw, gap, switches, pos_vars, bk_vars, app_vars>>

\* The backend's translate runs on its object (it reads the object's
\* fields during the outbound call) and ends; lines 72-83 turn its outcome
\* into the result.
TranslateBackend(outcome) ==
    /\ tr.pc = "backend"
    /\ tr' = [tr EXCEPT !.pc = "done", !.outcome = outcome,
                        !.used = [cls |-> heap[tr.backend].cls,
                                  config |-> heap[tr.backend].config],
                        !.result = TranslateResult(outcome)]
    /\ UNCHANGED <<eng_ctor, heap, engine, sw, gap, switches, pos_vars, bk_vars, app_vars>>

TranslateReturn ==
    /\ tr.pc = "done"
    /\ tr' = TrIdle
    /\ UNCHANGED <<eng_ctor, heap, engine, sw, gap, switches, pos_vars, bk_vars, app_vars>>

\* ---- switch_provider -----------------------------------------------------
SwitchNames == {"google", "nonexistent", UnhashableName}
SwitchConfigs ==
    {PyNone, PyDict([timeout |-> 5]), PyList(<<"api_key">>)}

SwIdle ==
    [pc |-> "idle", name |-> "", config |-> PyNone, old_provider |-> "",
     pre |-> [provider_name |-> "", config |-> EmptyDict, provider |-> 0],
     result |-> FALSE]

CallerIdle == sw.pc = "idle" /\ gap.pc = "idle"

\* switch_provider is called: lines 133-134.  pre records the engine's
\* fields at the call.
SwitchProviderCall(provider_name, config) ==
    /\ CallerIdle
    /\ switches < MaxSwitches
    /\ switches' = switches + 1
    /\ sw' = [SwIdle EXCEPT !.pc = "l136", !.name = provider_name,
                            !.config = config,
                            !.old_provider = engine.provider_name,
                            !.pre = [provider_name |-> engine.provider_name,
                                     config |-> engine.config,
                                     provider |-> engine.provider]]
    /\ engine' = [engine EXCEPT !.provider_name = provider_name]
    /\ UNCHANGED <<eng_ctor, heap, gap, tr, pos_vars, bk_vars, app_vars>>

\* lines 136-137: `if config: self.config.update(config)`.  dict.update
\* raises ValueError on a list of strings, which line 144 catches.
SwitchProviderUpdateConfig ==
    /\ sw.pc = "l136"
    /\ IF ~Truthy(sw.config)
       THEN /\ sw' = [sw EXCEPT !.pc = "l139"]
            /\ UNCHANGED engine
       ELSE IF sw.config.type = "dict"
            THEN /\ engine' = [engine EXCEPT
                                 !.config = Update(@, sw.config.items)]
                 /\ sw' = [sw EXCEPT !.pc = "l139"]
            ELSE /\ sw' = [sw EXCEPT !.pc = "done", !.result = FALSE]
                 /\ UNCHANGED engine
    /\ UNCHANGED <<eng_ctor, heap, gap, tr, switches, pos_vars, bk_vars, app_vars>>

\* lines 139-146: the new backend is constructed and installed and True is
\* returned; an exception of _create_provider is caught and False returned.
SwitchProviderCreate ==
    /\ sw.pc = "l139"
    /\ LET created == create_provider(engine.config, sw.name)
       IN  IF created.raised
           THEN /\ sw' = [sw EXCEPT !.pc = "done", !.result = FALSE]
                /\ UNCHANGED <<heap, engine, tr>>
           ELSE LET inst == InstallProvider(heap, engine.provider, created.value)
                IN  /\ heap' = inst.heap
                    /\ engine' = [engine EXCEPT !.provider = inst.provider]
                    /\ sw' = [sw EXCEPT !.pc = "done", !.result = TRUE]
                    /\ tr' = IF tr.pc = "l72"
                             THEN [tr EXCEPT !.overtaken = TRUE]
                             ELSE tr
    /\ UNCHANGED <<eng_ctor, gap, switches, pos_vars, bk_vars, app_vars>>

SwitchProviderReturn ==
    /\ sw.pc = "done"
    /\ sw' = SwIdle
    /\ UNCHANGED <<eng_ctor, heap, engine, gap, tr, switches, pos_vars, bk_vars, app_vars>>

\* ---- get_available_providers ---------------------------------------------
\* The probes of one enumeration: for each configured provider, what the
\* outbound call of its is_available does.
Probes ==
    {p \in [DOMAIN PROVIDER_CONFIGS -> SubprocessOutcomes \cup HttpOutcomes] :
        \A n \in DOMAIN PROVIDER_CONFIGS : p[n] \in ProbeOutcomes(ProviderClass(n))}

\* One iteration of the loop of lines 156-172.
ProviderEntry(config, name, outcome) ==
    LET created == create_provider(config, name)
        probed == is_available(created.value.cls, outcome)
    IN  IF created.raised \/ probed.raised
        THEN [description |-> Get(PROVIDER_CONFIGS[name], "description", "Unknown"),
              requires_internet |->
                  Get(PROVIDER_CONFIGS[name], "requires_internet", TRUE),
              available |-> FALSE]
        ELSE [description |-> created.value.description,
              requires_internet |-> created.value.requires_internet,
              available |-> probed.value]

\* The loop without the handler of line 165: a probe that raises ends the
\* call.
get_available_providers_uncaught(config, probe) ==
    IF \E n \in DOMAIN PROVIDER_CONFIGS :
           is_available(ProviderClass(n), probe[n]).raised
    THEN Raises("PermissionError")
    ELSE Returns([n \in DOMAIN PROVIDER_CONFIGS |->
                     ProviderEntry(config, n, probe[n])])

\* TranslationEngine.get_available_providers on an engine whose override
\* config is `config`.
get_available_providers(config, probe) ==
    Returns([n \in DOMAIN PROVIDER_CONFIGS |-> ProviderEntry(config, n, probe[n])])

NoProbe == [n \in DOMAIN PROVIDER_CONFIGS |-> ""]
GapIdle == [pc |-> "idle", probe |-> NoProbe, result |-> Returns(EmptyDict)]

\* One call of get_available_providers; the backends it constructs are
\* dropped when it returns.
GetAvailableProviders(probe) ==
    /\ CallerIdle
    /\ gap' = [pc |-> "done", probe |-> probe,
               result |-> get_available_providers(engine.config, probe)]
    /\ UNCHANGED <<eng_ctor, heap, engine, sw, tr, switches, pos_vars, bk_vars, app_vars>>

GetAvailableProvidersReturn ==
    /\ gap.pc = "done"
    /\ gap' = GapIdle
    /\ UNCHANGED <<eng_ctor, heap, engine, sw, tr, switches, pos_vars, bk_vars, app_vars>>

(***************************************************************************)
(* core/providers: one call through the active backend to the outside.     *)
(***************************************************************************)
\* A piece of a message: a literal of the code, or text that came from
\* outside (the tool's output, the text of an exception).
Lit(s) == [lit |-> s]
Txt(t) == [chars |-> t]

\* ---- providers/base.py ---------------------------------------------------
\* The text sent on as it was given.
preprocess_text_unstripped(text) == text

preprocess_text(text) == Strip(text)

\* The result handed back as it was received.
postprocess_text_unstripped(text) == text

postprocess_text(text) == Strip(text)

\* str.split() without a separator: the maximal runs of non-whitespace.
RECURSIVE Split(_)
Split(t) ==
    LET s == LStrip(t)
        ws == {i \in 1..Len(s) : s[i] \in Whitespace}
        n == IF ws = {} THEN Len(s) + 1
             ELSE CHOOSE i \in ws : \A j \in ws : i <= j
    IN  IF s = <<>> THEN <<>>
        ELSE <<SubSeq(s, 1, n - 1)>> \o Split(SubSeq(s, n, Len(s)))

\* The words counted as str.split(" ") would: every single whitespace
\* character separates two (possibly empty) words.
get_word_count_split_on_space(text) ==
    1 + Cardinality({i \in 1..Len(Strip(text)) : Strip(text)[i] \in Whitespace})

\* TranslationProvider.get_word_count, to which
\* TranslationEngine.get_word_count delegates.
get_word_count(text) == Len(Split(Strip(text)))

\* ---- providers/apertium.py -----------------------------------------------
\* ApertiumProvider.__init__: the fields the subclass adds.
ApertiumProvider(config) ==
    [engine |-> Get(config, "engine", "apertium"),
     language_pair |-> Get(config, "language_pair", "eng-spa")]

lang_map ==
    [en |-> "eng", es |-> "spa", fr |-> "fra", de |-> "deu", it |-> "ita",
     pt |-> "por", ca |-> "cat", eu |-> "eus", gl |-> "glg", oc |-> "oci",
     ar |-> "ara", mt |-> "mlt", cy |-> "cym", br |-> "bre", is |-> "isl",
     mk |-> "mkd", bg |-> "bul", hr |-> "hrv", sl |-> "slv", sr |-> "srp",
     bs |-> "bos", sq |-> "sqi", ro |-> "ron", ru |-> "rus", be |-> "bel",
     uk |-> "ukr", kk |-> "kaz", ky |-> "kir", uz |-> "uzb", tt |-> "tat",
     ba |-> "bak", crh |-> "crh", nog |-> "nog", kum |-> "kum", kaa |-> "kaa"]

\* What an outbound call can do: end with an exit code and its output
\* streams, answer with an HTTP status and a body, or raise.
Exit(code, stdout, stderr) ==
    [kind |-> "exit", code |-> code, stdout |-> stdout, stderr |-> stderr]
Raise(exc) == [kind |-> "raise", exc |-> exc]
Response(status, body) == [kind |-> "response", status |-> status, body |-> body]
NoOutcome == [kind |-> "none"]

\* The lines of `apertium -l`, each already stripped: pairs, blank lines
\* and comments.
CommentLines == {"# installed pairs"}
ListingStdouts ==
    {<<"eng-spa", "spa-eng">>, <<"# installed pairs", "spa-eng", "">>,
     <<"fra-eng">>, <<"">>}
ListingOutcomes ==
    {Exit(0, out, <<>>) : out \in ListingStdouts}
    \cup {Exit(1, <<>>, <<>>), Raise("TimeoutExpired"), Raise("FileNotFoundError")}

\* ApertiumProvider._get_apertium_pairs once `apertium -l` has ended in
\* `outcome`.
get_apertium_pairs(outcome) ==
    IF outcome.kind = "exit" /\ outcome.code = 0
    THEN {outcome.stdout[i] : i \in {j \in 1..Len(outcome.stdout) :
              outcome.stdout[j] # "" /\ outcome.stdout[j] \notin CommentLines}}
    ELSE {"eng-spa", "spa-eng", "eng-fra", "fra-eng", "eng-cat", "cat-eng"}

\* The resolution with the reversed pair tried before the requested one.
convert_to_apertium_pair_reverse_first(self, source_lang, target_lang, supported_pairs) ==
    LET apertium_source == Get(lang_map, source_lang, source_lang)
        apertium_target == Get(lang_map, target_lang, target_lang)
        pair == apertium_source \o "-" \o apertium_target
        reverse_pair == apertium_target \o "-" \o apertium_source
    IN  IF reverse_pair \in supported_pairs THEN reverse_pair
        ELSE IF pair \in supported_pairs THEN pair
        ELSE self.language_pair

\* ApertiumProvider._convert_to_apertium_pair, given what
\* _get_apertium_pairs returned (line 134).
convert_to_apertium_pair(self, source_lang, target_lang, supported_pairs) ==
    LET apertium_source == Get(lang_map, source_lang, source_lang)
        apertium_target == Get(lang_map, target_lang, target_lang)
        pair == apertium_source \o "-" \o apertium_target
        reverse_pair == apertium_target \o "-" \o apertium_source
    IN  IF pair \in supported_pairs THEN pair
        ELSE IF reverse_pair \in supported_pairs THEN reverse_pair
        ELSE self.language_pair

\* What the translation subprocess can do.
RunOutcomes ==
    {Exit(0, out, <<>>) : out \in Texts}
    \cup {Exit(1, <<>>, err) : err \in Texts}
    \cup {Raise("TimeoutExpired"), Raise("FileNotFoundError"),
          Raise("PermissionError")}

\* The exit code not looked at: whatever the tool printed is the
\* translation.
apertium_run_result_ignoring_code(self, outcome) ==
    IF outcome.kind = "exit"
    THEN [success |-> TRUE,
          message |-> <<Txt(postprocess_text(Strip(outcome.stdout)))>>]
    ELSE [success |-> FALSE, message |-> <<Lit("Unexpected error: "),
                                           Lit(outcome.exc)>>]

\* ApertiumProvider.translate, lines 58-76: the (success, result) pair once
\* the translation subprocess has ended in `outcome`.
apertium_run_result(self, outcome) ==
    IF outcome.kind = "exit"
    THEN IF outcome.code = 0
         THEN [success |-> TRUE,
               message |-> <<Txt(postprocess_text(Strip(outcome.stdout)))>>]
         ELSE LET error_msg == Strip(outcome.stderr)
              IN  [success |-> FALSE,
                   message |-> <<Lit("Translation error: "),
                                 IF error_msg # <<>> THEN Txt(error_msg)
                                 ELSE Lit("Translation failed")>>]
    ELSE CASE outcome.exc = "TimeoutExpired" ->
                [success |-> FALSE, message |-> <<Lit("Translation timeout")>>]
           [] outcome.exc = "FileNotFoundError" ->
                [success |-> FALSE,
                 message |-> <<Lit(self.engine), Lit(" not installed")>>]
           [] OTHER ->
                [success |-> FALSE,
                 message |-> <<Lit("Unexpected error: "), Lit(outcome.exc)>>]

\* ---- providers/google.py, providers/libretranslate.py --------------------
\* The body of an HTTP answer: JSON from which _parse_response extracts
\* `translation` (empty when the JSON has another shape), or no JSON.
Bodies ==
    {[json |-> TRUE, translation |-> t] : t \in Texts}
    \cup {[json |-> FALSE, translation |-> <<>>]}

\* _parse_response: a JSONDecodeError is caught inside it.
parse_response(body) == IF body.json THEN body.translation ELSE <<>>

\* The exceptions of urlopen that are instances of urllib.error.URLError:
\* a connect timeout is wrapped in one, an HTTP error status is a subclass.
URLErrors == {"URLError(timed out)", "URLError(connection refused)", "HTTPError 500"}

\* What the HTTP request of a remote backend's translate can do.  A
\* timeout while the answer is read is raised as TimeoutError.
HttpTranslateOutcomes ==
    {Response("200", b) : b \in Bodies}
    \cup {Response("204", [json |-> FALSE, translation |-> <<>>])}
    \cup {Raise(e) : e \in URLErrors \cup {"TimeoutError"}}

\* The outcomes in which the outbound call exceeded its timeout.
TimeoutExceptions == {"TimeoutExpired", "URLError(timed out)", "TimeoutError"}

\* GoogleProvider.translate lines 65-89 and LibreTranslateProvider.translate
\* lines 73-97: the (success, result) pair once urlopen has ended.
http_translate_result(outcome) ==
    IF outcome.kind = "response"
    THEN IF outcome.status = "200"
         THEN LET translation == parse_response(outcome.body)
              IN  IF translation # <<>>
                  THEN [success |-> TRUE,
                        message |-> <<Txt(postprocess_text(translation))>>]
                  ELSE [success |-> FALSE,
                        message |-> <<Lit("Failed to parse translation response")>>]
         ELSE [success |-> FALSE,
               message |-> <<Lit("API error: "), Lit(outcome.status)>>]
    ELSE IF outcome.exc \in URLErrors
         THEN [success |-> FALSE,
               message |-> <<Lit("Network error: "), Lit(outcome.exc)>>]
         ELSE [success |-> FALSE,
               message |-> <<Lit("Unexpected error: "), Lit(outcome.exc)>>]

\* The URL a remote backend sends its request to.
service_url(self) ==
    IF self.cls = "GoogleProvider"
    THEN "https://translate.googleapis.com/translate_a/single"
    ELSE Get(self.config, "service_url", "https://libretranslate.de/translate")

\* ---- core/translator.py: is_available ------------------------------------
\* The probe's result handed on as it is, an exception included.
TranslationEngine_is_available_uncaught(cls, outcome) == is_available(cls, outcome)

\* TranslationEngine.is_available on an engine whose active backend is of
\* class cls and whose probe's outbound call ends in `outcome`.
TranslationEngine_is_available(cls, outcome) ==
    LET probed == is_available(cls, outcome)
    IN  IF probed.raised THEN Returns(FALSE) ELSE probed

\* ---- one call through the active backend ---------------------------------
\* An outbound call as the code issues it; input is <<>> when none is given.
OutboundCall(fn, cmd, input, timeout) ==
    [fn |-> fn, cmd |-> cmd, input |-> input, timeout |-> timeout]

BcIdle ==
    [pc |-> "idle", op |-> "", text |-> <<>>, runs |-> <<>>,
     listing |-> NoOutcome, pair |-> "", outcome |-> NoOutcome, probe |-> "",
     result |-> NoResult, available |-> Returns(FALSE), count |-> 0]

\* translate(text) is called on the engine (lines 67-72) and enters the
\* active backend's translate, which runs up to its first outbound call:
\* the pair listing of the Apertium backend (apertium.py lines 36-43, 151)
\* or the HTTP request of a remote backend.
ProviderTranslateCall(text) ==
    /\ bc.pc = "idle"
    /\ LET self == heap[engine.provider]
       IN  bc' =
             IF IsBlankText(text)
             THEN [BcIdle EXCEPT !.pc = "done", !.op = "translate",
                                 !.text = text,
                                 !.result = [raised |-> FALSE, success |-> FALSE,
                                     message |-> <<Lit("Empty text provided")>>]]
             ELSE IF self.cls = "ApertiumProvider"
             THEN [BcIdle EXCEPT !.pc = "listing", !.op = "translate",
                                 !.text = text,
                                 !.runs = <<OutboundCall("subprocess.run",
                                     <<ApertiumProvider(self.config).engine, "-l">>,
                                     <<>>, 5)>>]
             ELSE [BcIdle EXCEPT !.pc = "http", !.op = "translate",
                                 !.text = text,
                                 !.runs = <<OutboundCall("urlopen",
                                     <<service_url(self)>>,
                                     <<preprocess_text(text)>>, self.timeout)>>]
    /\ UNCHANGED <<eng_vars, pos_vars, app_vars>>

\* The pair listing ends: the pair is resolved (lines 127-142) and either
\* the call ends with "Unsupported language pair" (line 45) or the
\* translation subprocess is started (lines 50-56).
ApertiumListing(outcome) ==
    /\ bc.pc = "listing"
    /\ LET self == heap[engine.provider]
           ap == ApertiumProvider(self.config)
           pair == convert_to_apertium_pair(ap, engine.source_lang,
                       engine.target_lang, get_apertium_pairs(outcome))
       IN  bc' =
             IF pair = ""
             THEN [bc EXCEPT !.pc = "done", !.listing = outcome, !.pair = pair,
                             !.result = TranslateResult(Returns(
                                 [success |-> FALSE,
                                  message |-> <<Lit("Unsupported language pair: "),
                                                Lit(engine.source_lang), Lit("-"),
                                                Lit(engine.target_lang)>>]))]
             ELSE [bc EXCEPT !.pc = "run", !.listing = outcome, !.pair = pair,
                             !.runs = Append(@, OutboundCall("subprocess.run",
                                 <<ap.engine, pair>>,
                                 <<preprocess_text(bc.text)>>, self.timeout))]
    /\ UNCHANGED <<eng_vars, pos_vars, app_vars>>

\* The translation subprocess ends; translate returns.
ApertiumRun(outcome) ==
    /\ bc.pc = "run"
    /\ bc' = [bc EXCEPT !.pc = "done", !.outcome = outcome,
                        !.result = TranslateResult(Returns(apertium_run_result(
                            ApertiumProvider(heap[engine.provider].config),
                            outcome)))]
    /\ UNCHANGED <<eng_vars, pos_vars, app_vars>>

\* The HTTP request of a remote backend ends; translate returns.
HttpRequest(outcome) ==
    /\ bc.pc = "http"
    /\ bc' = [bc EXCEPT !.pc = "done", !.outcome = outcome,
                        !.result = TranslateResult(Returns(
                            http_translate_result(outcome)))]
    /\ UNCHANGED <<eng_vars, pos_vars, app_vars>>

\* The outbound call of a backend's is_available: `engine -V` for Apertium
\* (apertium.py lines 180-184), a request translating "hello" for the
\* remote backends (google.py line 134, libretranslate.py line 148), each
\* with the timeout 5 written in the code.
probe_call(self) ==
    IF self.cls = "ApertiumProvider"
    THEN OutboundCall("subprocess.run",
                      <<ApertiumProvider(self.config).engine, "-V">>, <<>>, 5)
    ELSE OutboundCall("urlopen", <<service_url(self)>>,
                      <<(<<"h", "e", "l", "l", "o">>)>>, 5)

\* One call of TranslationEngine.is_available.
EngineIsAvailable(outcome) ==
    /\ bc.pc = "idle"
    /\ outcome \in ProbeOutcomes(heap[engine.provider].cls)
    /\ bc' = [BcIdle EXCEPT !.pc = "done", !.op = "is_available",
                            !.probe = outcome,
                            !.runs = <<probe_call(heap[engine.provider])>>,
                            !.available = TranslationEngine_is_available(
                                heap[engine.provider].cls, outcome)]
    /\ UNCHANGED <<eng_vars, pos_vars, app_vars>>

\* The texts whose words are counted: every text of at most MaxWordTextLen
\* characters, and "  a   a  ".
WordChars == {" ", "\n", "a"}
WordTexts ==
    UNION {[1..n -> WordChars] : n \in 0..MaxWordTextLen}
    \cup {<<" ", " ", "a", " ", " ", " ", "a", " ", " ">>}

\* One call of TranslationEngine.get_word_count.
GetWordCount(text) ==
    /\ bc.pc = "idle"
    /\ bc' = [BcIdle EXCEPT !.pc = "done", !.op = "get_word_count",
                            !.text = text, !.count = get_word_count(text)]
    /\ UNCHANGED <<eng_vars, pos_vars, app_vars>>

BackendCallReturn ==
    /\ bc.pc = "done"
    /\ bc' = BcIdle
    /\ UNCHANGED <<eng_vars, pos_vars, app_vars>>

(***************************************************************************)
(* The calls the positioner is checked on: a small grid of coordinates     *)
(* around the layout constants, and full-size screens.                     *)
(***************************************************************************)
CtorTextHeights == {<<>>, <<1>>}
CtorMargins == {<<>>, <<0>>, <<1>>, <<-1>>}
CtorTitleBarHeights == {<<>>, <<0>>, <<1>>}

GridCalls ==
    {[cursor_x |-> cx, cursor_y |-> cy, window_width |-> ww,
      window_height |-> wh, screen_width |-> scw, screen_height |-> sch] :
        cx \in {0, 3, 12}, cy \in -1..MaxY, ww \in {2, 11},
        wh \in 0..MaxY, scw \in {4, 12}, sch \in 0..MaxY}

Call(cx, cy, ww, wh, scw, sch) ==
    [cursor_x |-> cx, cursor_y |-> cy, window_width |-> ww,
     window_height |-> wh, screen_width |-> scw, screen_height |-> sch]

\* The window of config.py on screens of common sizes.
ScreenCalls ==
    {Call(800, 100, WINDOW_CONFIG.default_width, WINDOW_CONFIG.default_height,
          1920, 1080),
     Call(1800, 1000, WINDOW_CONFIG.default_width, WINDOW_CONFIG.default_height,
          1920, 1080),
     Call(100, 300, WINDOW_CONFIG.default_width, WINDOW_CONFIG.default_height,
          1024, 600),
     Call(900, 590, WINDOW_CONFIG.default_width, WINDOW_CONFIG.default_height,
          1024, 600),
     Call(100, 100, WINDOW_CONFIG.default_width, WINDOW_CONFIG.default_height,
          425, 1080),
     Call(100, 100, WINDOW_CONFIG.default_width, WINDOW_CONFIG.default_height,
          1920, 330)}

PosCalls == GridCalls \cup ScreenCalls

\* A call that keeps the y it computed in the positioner's margin field.
CalculateWindowPositionCaching ==
    /\ pos_pc = "ready"
    /\ pos_result' = calculate_window_position(positioner,
                        pos_args.cursor_x, pos_args.cursor_y,
                        pos_args.window_width, pos_args.window_height,
                        pos_args.screen_width, pos_args.screen_height)
    /\ positioner' = [positioner EXCEPT !.margin = pos_result'[2]]
    /\ pos_pc' = "returned"
    /\ UNCHANGED <<pos_ctor, pos_args, pos_again, eng_vars, bk_vars, app_vars>>

\* One call of calculate_window_position on the positioner.  The method
\* assigns to locals only: no field of self and no global is written.
CalculateWindowPosition ==
    /\ pos_pc = "ready"
    /\ pos_result' = calculate_window_position(positioner,
                        pos_args.cursor_x, pos_args.cursor_y,
                        pos_args.window_width, pos_args.window_height,
                        pos_args.screen_width, pos_args.screen_height)
    /\ pos_pc' = "returned"
    /\ UNCHANGED <<pos_ctor, positioner, pos_args, pos_again, eng_vars, bk_vars, app_vars>>

\* The same call made a second time on the same positioner.
CalculateWindowPositionAgain ==
    /\ pos_pc = "returned"
    /\ pos_again' = calculate_window_position(positioner,
                       pos_args.cursor_x, pos_args.cursor_y,
                       pos_args.window_width, pos_args.window_height,
                       pos_args.screen_width, pos_args.screen_height)
    /\ pos_pc' = "returned again"
    /\ UNCHANGED <<pos_ctor, positioner, pos_args, pos_result, eng_vars, bk_vars, app_vars>>

(***************************************************************************)
(* config.py, ui/config_window.py, core/translator.py: the provider        *)
(* settings as dict objects.  A dict object has an identity, its index in  *)
(* cfg.dicts; two references to one index see each other's updates.        *)
(***************************************************************************)
\* The module-level PROVIDER_CONFIGS: its three entries are dict objects
\* created at import and never rebound.
shared == [apertium |-> 1, google |-> 2, libretranslate |-> 3]

\* A reference handed on in place of a copy.
dict_copy_alias(dicts, id) == [dicts |-> dicts, id |-> id]

\* dict.copy(): a new dict object with the same items.
dict_copy(dicts, id) == [dicts |-> Append(dicts, dicts[id]), id |-> Len(dicts) + 1]

\* dict.update(other) on the dict object id.
dict_update(dicts, id, other) == [dicts EXCEPT ![id] = Update(@, other)]

\* A dict literal: a new dict object.
dict_new(dicts, items) == [dicts |-> Append(dicts, items), id |-> Len(dicts) + 1]

\* The user's settings file: the provider of its "translation" section
\* (<<>> when the file has none) and its "providers" section, with no
\* settings for a provider the file does not mention.
NoFile ==
    [provider |-> <<>>,
     providers |-> [n \in DOMAIN PROVIDER_CONFIGS |-> EmptyDict]]

\* The files a run can start with: none, or one saved by an earlier run.
InitialFiles ==
    {NoFile,
     [NoFile EXCEPT !.provider = <<"google">>],
     [NoFile EXCEPT !.provider = <<"libretranslate">>,
                    !.providers.libretranslate =
                        [service_url |-> "http://localhost:5000/translate"]]}

\* No engine constructed yet.
NoEngine == [config |-> 0, provider |-> 0]

CfgInitial ==
    [dicts |-> <<PROVIDER_CONFIGS.apertium, PROVIDER_CONFIGS.google,
                 PROVIDER_CONFIGS.libretranslate>>,
     file |-> NoFile, backends |-> <<>>, engine |-> NoEngine, window |-> FALSE]

\* get_config, lines 122-132: the provider settings of the user's file are
\* merged into the entries of PROVIDER_CONFIGS, in place.
RECURSIVE get_config_merge(_, _, _)
get_config_merge(dicts, file, names) ==
    IF names = {} THEN dicts
    ELSE LET n == CHOOSE m \in names : TRUE
         IN  get_config_merge(dict_update(dicts, shared[n], file.providers[n]),
                              file, names \ {n})

get_config(dicts, file) == get_config_merge(dicts, file, DOMAIN PROVIDER_CONFIGS)

\* TranslationEngine._create_provider, lines 45-53, on the dict objects: a
\* copy of the provider's entry, updated with the items of the engine's own
\* config, is handed to the new backend, which keeps the reference and
\* reads its fields from it.  `held` remembers the items at construction.
create_provider_from_shared(dicts, engine_config, provider_name) ==
    LET copied == dict_copy(dicts, shared[provider_name])
        updated == dict_update(copied.dicts, copied.id, dicts[engine_config])
    IN  [dicts |-> updated,
         backend |-> [cls |-> ProviderClass(provider_name),
                      config |-> copied.id,
                      timeout |-> Get(updated[copied.id], "timeout", 10),
                      held |-> updated[copied.id]]]

\* TranslationEngine.__init__ with a configured provider name and a config
\* dict: `self.config = config or {}` keeps the caller's dict object when
\* it is not empty.
new_engine(c, provider_name, config) ==
    LET own == dict_new(c.dicts, config)
        made == create_provider_from_shared(own.dicts, own.id, provider_name)
    IN  [c EXCEPT !.dicts = made.dicts,
                  !.backends = Append(@, made.backend),
                  !.engine = [config |-> own.id, provider |-> Len(c.backends) + 1]]

\* The backends a run constructs are at most MaxBackends.
CanConstruct == Len(cfg.backends) < MaxBackends

\* TranslatorWindow.__init__, lines 24-35: get_config, then the engine for
\* the provider of the merged translation settings.
MainWindowInit ==
    /\ ~cfg.window
    /\ CanConstruct
    /\ LET merged == [cfg EXCEPT !.dicts = get_config(cfg.dicts, cfg.file),
                                 !.window = TRUE]
           provider == IF cfg.file.provider = <<>> THEN TRANSLATION_CONFIG.provider
                       ELSE cfg.file.provider[1]
       IN  cfg' = new_engine(merged, provider, EmptyDict)
    /\ UNCHANGED <<eng_vars, pos_vars, bk_vars, cur, ui, cm>>

\* ConfigWindow._load_current_config, line 270: opening the settings
\* window calls get_config.
LoadCurrentConfig ==
    /\ cfg.window
    /\ cfg' = [cfg EXCEPT !.dicts = get_config(cfg.dicts, cfg.file)]
    /\ UNCHANGED <<eng_vars, pos_vars, bk_vars, cur, ui, cm>>

\* What the settings window's entries can hold.
ApiKeyEntries == {"", "k1", "k2"}
UrlEntries == {"https://libretranslate.de/translate", "http://localhost:5000/translate"}

\* ConfigWindow._save_config, lines 442-453: the provider-specific
\* settings taken from the entries.
provider_config(selected_provider, api_key, url) ==
    IF selected_provider = "google"
    THEN IF api_key # "" THEN [api_key |-> <<api_key>>] ELSE EmptyDict
    ELSE IF selected_provider = "libretranslate"
    THEN IF api_key # "" THEN [service_url |-> url, api_key |-> <<api_key>>]
         ELSE [service_url |-> url]
    ELSE EmptyDict

\* ConfigWindow._save_config, lines 420-459: the settings are written
\* to the user's file (_save_user_config, lines 497-501) and the window's
\* engine is replaced by a new one (_update_parent_engine, lines 516-524).
SaveSettings(selected_provider, api_key, url) ==
    /\ cfg.window
    /\ CanConstruct
    /\ LET settings == provider_config(selected_provider, api_key, url)
           saved == [cfg EXCEPT
                       !.file.provider = <<selected_provider>>,
                       !.file.providers[selected_provider] =
                           IF settings # EmptyDict THEN settings ELSE @]
       IN  cfg' = new_engine(saved, selected_provider, settings)
    /\ UNCHANGED <<eng_vars, pos_vars, bk_vars, cur, ui, cm>>

\* The overrides a later switch_provider is given.
SwitchOverrides == {EmptyDict, [timeout |-> 5], [api_key |-> <<"k3">>]}

\* TranslationEngine.switch_provider with a configured name, lines 133-142,
\* on the dict objects: the engine's own config is updated in place and a
\* new backend is constructed and installed.
SwitchProviderShared(provider_name, config) ==
    /\ cfg.window
    /\ CanConstruct
    /\ LET updated == dict_update(cfg.dicts, cfg.engine.config, config)
           made == create_provider_from_shared(updated, cfg.engine.config,
                                               provider_name)
       IN  cfg' = [cfg EXCEPT !.dicts = made.dicts,
                              !.backends = Append(@, made.backend),
                              !.engine.provider = Len(cfg.backends) + 1]
    /\ UNCHANGED <<eng_vars, pos_vars, bk_vars, cur, ui, cm>>

(***************************************************************************)
(* utils/positioning.py, ui/main_window.py: the cursor position is asked   *)
(* of the cursor tool and the window is placed.                            *)
(***************************************************************************)
\* str.split(sep) for a one-character separator: the pieces between the
\* separators, at least one.
RECURSIVE SplitOn(_, _)
SplitOn(t, sep) ==
    LET at == {i \in 1..Len(t) : t[i] = sep}
    IN  IF at = {} THEN <<t>>
        ELSE LET n == CHOOSE i \in at : \A j \in at : i <= j
             IN  <<SubSeq(t, 1, n - 1)>> \o SplitOn(SubSeq(t, n + 1, Len(t)), sep)

Digits == <<"0", "1", "2", "3", "4", "5", "6", "7", "8", "9">>
IsDigit(c) == \E i \in 1..10 : Digits[i] = c
DigitValue(c) == (CHOOSE i \in 1..10 : Digits[i] = c) - 1

\* The value of a non-empty sequence of digits.
RECURSIVE DigitsValue(_)
DigitsValue(t) ==
    IF t = <<>> THEN 0
    ELSE 10 * DigitsValue(SubSeq(t, 1, Len(t) - 1)) + DigitValue(t[Len(t)])

\* int(str): surrounding whitespace is dropped, one sign is allowed, and at
\* least one digit and nothing but digits must follow; ValueError otherwise.
int(t) ==
    LET s == Strip(t)
        signed == s # <<>> /\ s[1] \in {"-", "+"}
        digits == IF signed THEN Tail(s) ELSE s
    IN  IF digits # <<>> /\ \A i \in 1..Len(digits) : IsDigit(digits[i])
        THEN Returns(IF signed /\ s[1] = "-" THEN 0 - DigitsValue(digits)
                     ELSE DigitsValue(digits))
        ELSE Raises("ValueError")

\* `int(line.split('=')[1])`: IndexError when the line has no '='.
coordinate(line) ==
    LET parts == SplitOn(line, "=")
    IN  IF Len(parts) < 2 THEN Raises("IndexError") ELSE int(parts[2])

\* The texts the cursor tool prints for a coordinate, well-formed or not.
NumberTexts ==
    {<<"0">>, <<"1", "2">>, <<"-", "5">>, <<"8", "0", "0">>, <<" ", "7">>,
     <<"a">>, <<>>}

\* What `xdotool getmouselocation --shell` prints: X=..., Y=..., SCREEN=...
\* on lines of their own, or something else.
CursorStdouts ==
    {<<"X", "=">> \o x \o <<"\n", "Y", "=">> \o y
         \o <<"\n", "S", "C", "R", "E", "E", "N", "=", "0", "\n">> :
        x \in NumberTexts, y \in NumberTexts}
    \cup {<<>>, <<"\n">>, <<"X", "=", "1", "2", "\n">>,
          <<"X", " ", "1", "2", "\n", "Y", " ", "7", "\n">>}

\* What the cursor tool's subprocess can do.
CursorOutcomes ==
    {Exit(0, out, <<>>) : out \in CursorStdouts}
    \cup {Exit(1, <<>>, <<>>), Raise("TimeoutExpired"),
          Raise("FileNotFoundError"), Raise("PermissionError")}

\* WindowPositioner.get_cursor_position, lines 40-54, without the handler:
\* the pair (x, y), None (as <<>>), or the exception raised.
cursor_query(outcome) ==
    IF outcome.kind = "raise" THEN Raises(outcome.exc)
    ELSE IF outcome.code # 0 THEN Returns(<<>>)
    ELSE LET lines == SplitOn(Strip(outcome.stdout), "\n")
             x == coordinate(lines[1])
         IN  IF x.raised THEN x
             ELSE IF Len(lines) < 2 THEN Raises("IndexError")
             ELSE LET y == coordinate(lines[2])
                  IN  IF y.raised THEN y ELSE Returns(<<x.value, y.value>>)

\* get_cursor_position with no exception caught.
get_cursor_position_uncaught(outcome) == cursor_query(outcome)

\* WindowPositioner.get_cursor_position, lines 39-59: TimeoutExpired,
\* FileNotFoundError, IndexError and ValueError are turned into None.
get_cursor_position(outcome) ==
    LET queried == cursor_query(outcome)
    IN  IF queried.raised /\ queried.error \in
              {"TimeoutExpired", "FileNotFoundError", "IndexError", "ValueError"}
        THEN Returns(<<>>)
        ELSE queried

\* The screens the window is placed on: (width, height).
Screens == {<<1920, 1080>>, <<1024, 600>>, <<425, 330>>}

\* Gtk.WindowPosition.CENTER, and a move to (x, y).
Center == [kind |-> "center", x |-> 0, y |-> 0]
MoveTo(xy) == [kind |-> "move", x |-> xy[1], y |-> xy[2]]

CurIdle ==
    [pc |-> "idle", outcome |-> NoOutcome, screen |-> <<0, 0>>,
     position |-> Returns(<<>>), calls |-> <<>>, placement |-> Center]

\* TranslatorWindow._position_near_cursor, lines 342-383: the cursor tool
\* ends in `outcome`; without a position, or on any exception, the window
\* is centred; otherwise calculate_window_position is called with the
\* window size of config.py and the window is moved to its result.
PositionNearCursor(outcome, screen) ==
    /\ cur.pc = "idle"
    /\ LET cursor_pos == get_cursor_position(outcome)
           args == Call(cursor_pos.value[1], cursor_pos.value[2],
                        WINDOW_CONFIG.default_width, WINDOW_CONFIG.default_height,
                        screen[1], screen[2])
       IN  cur' =
             IF cursor_pos.raised \/ cursor_pos.value = <<>>
             THEN [CurIdle EXCEPT !.pc = "placed", !.outcome = outcome,
                                  !.screen = screen, !.position = cursor_pos]
             ELSE [CurIdle EXCEPT !.pc = "placed", !.outcome = outcome,
                                  !.screen = screen, !.position = cursor_pos,
                                  !.calls = <<args>>,
                                  !.placement = MoveTo(calculate_window_position(
                                      positioner, args.cursor_x, args.cursor_y,
                                      args.window_width, args.window_height,
                                      args.screen_width, args.screen_height))]
    /\ UNCHANGED <<eng_vars, pos_vars, bk_vars, cfg, ui, cm>>

\* The handler has returned; the next selection will place the window anew.
PositionNearCursorReturn ==
    /\ cur.pc = "placed"
    /\ cur' = CurIdle
    /\ UNCHANGED <<eng_vars, pos_vars, bk_vars, cfg, ui, cm>>

(***************************************************************************)
(* ui/main_window.py: the translation requests of the window.  Every       *)
(* request starts a worker thread; a worker hands its result to the UI     *)
(* thread with GLib.idle_add, and the UI thread runs the posted callbacks  *)
(* in the order they were posted.                                          *)
(***************************************************************************)
\* The texts the window is asked to translate.
RequestTexts == {"hello", "world"}

\* What translation_engine.translate returns for a text: the translation
\* of that text, or a failure message about it.
translation_of(text, success) == [of |-> text, success |-> success]

NoTranslation == [of |-> "", success |-> FALSE]

UiIdle ==
    [requests |-> <<>>, workers |-> <<>>, idle |-> <<>>,
     displayed |-> NoTranslation, updates |-> 0]

\* TranslatorWindow._translate_text, lines 299-312, called on the UI thread
\* by _auto_translate, _on_translate_clicked and _handle_selection: a
\* daemon thread is started for the text.
TranslateText(text) ==
    /\ Len(ui.requests) < MaxRequests
    /\ ui' = [ui EXCEPT !.requests = Append(@, text),
                        !.workers = Append(@, "translating")]
    /\ UNCHANGED <<eng_vars, pos_vars, bk_vars, cfg, cur, cm>>

\* translate_worker, lines 301-308, of request i: translate returns and the
\* result is posted to the UI thread.
TranslateWorker(i, success) ==
    /\ i \in 1..Len(ui.workers)
    /\ ui.workers[i] = "translating"
    /\ ui' = [ui EXCEPT !.workers[i] = "posted",
                        !.idle = Append(@, translation_of(ui.requests[i], success))]
    /\ UNCHANGED <<eng_vars, pos_vars, bk_vars, cfg, cur, cm>>

\* TranslatorWindow._update_translation_ui, lines 314-320, run by the UI
\* thread for the oldest posted callback: the text is displayed.
UpdateTranslationUi ==
    /\ ui.idle # <<>>
    /\ ui' = [ui EXCEPT !.idle = Tail(@), !.displayed = Head(ui.idle),
                        !.updates = @ + 1]
    /\ UNCHANGED <<eng_vars, pos_vars, bk_vars, cfg, cur, cm>>

(***************************************************************************)
(* core/clipboard.py: one ClipboardMonitor, the thread that calls          *)
(* start_monitoring and stop_monitoring on it, and the loop threads it has *)
(* started.  The loop threads and the caller share the monitor's fields    *)
(* without a lock: the test of a selection against last_selection and the  *)
(* assignment of last_selection are separate steps of a loop thread.       *)
(***************************************************************************)
CLIPBOARD_CONFIG ==
    [command |-> "xsel", min_length |-> 1, max_length |-> 500]

\* The length arguments of ClipboardMonitor.__init__; <<>> is None.
MonitorCtorArgs ==
    {[min_length |-> <<>>, max_length |-> <<>>],
     [min_length |-> <<2>>, max_length |-> <<2>>]}

\* What `xsel -o` prints.
SelectionStdouts ==
    {<<>>, <<"a">>, <<"a", "b">>, <<" ", "a", "b", "\n">>, <<"a", "b", "c">>}

\* What the subprocess of _get_selection can do.
SelectionOutcomes ==
    {Exit(0, out, <<>>) : out \in SelectionStdouts}
    \cup {Exit(1, <<>>, <<>>), Raise("TimeoutExpired"), Raise("PermissionError")}

\* ClipboardMonitor._get_selection, lines 99-113: the stripped output as
\* <<text>>, None as <<>>, or the exception that is not caught there.
get_selection(outcome) ==
    IF outcome.kind = "exit"
    THEN Returns(IF outcome.code = 0 THEN <<Strip(outcome.stdout)>> ELSE <<>>)
    ELSE IF outcome.exc \in {"TimeoutExpired", "FileNotFoundError"}
         THEN Returns(<<>>)
         ELSE Raises(outcome.exc)

\* What the subprocesses of ClipboardMonitor.is_available can do.
ToolProbeOutcomes == {"exit0", "exit1", "FileNotFoundError", "TimeoutExpired"}

\* ClipboardMonitor.is_available, lines 121-138: `--version`, and `--help`
\* when the first subprocess could not be run.
clipboard_is_available(version, help) ==
    IF version \in {"exit0", "exit1"} THEN version = "exit0"
    ELSE help \in {"exit0", "exit1"}

\* A loop thread: where it is in _monitor_loop, the new selection it is
\* about to deliver (<<>> when none), whether a stop_monitoring called
\* after its start has returned, and whether it has begun another round
\* or called back since then.
LoopThread ==
    [pc |-> "while", new |-> <<>>, stopped |-> FALSE, after_stop |-> FALSE]

\* ClipboardMonitor.__init__, lines 29-37.
ClipboardMonitor(min_length, max_length) ==
    [min_length |-> OrDefault(min_length, CLIPBOARD_CONFIG.min_length),
     max_length |-> OrDefault(max_length, CLIPBOARD_CONFIG.max_length),
     monitoring |-> FALSE, last_selection |-> <<>>, callback |-> FALSE,
     monitor_thread |-> 0,
     threads |-> <<>>, joining |-> 0,
     start |-> [called |-> FALSE, monitoring |-> FALSE, result |-> FALSE,
                started |-> FALSE],
     delivered |-> <<>>, raised |-> FALSE, polls |-> 0]

CmIdle == ClipboardMonitor(<<>>, <<>>)

\* No call of the caller thread is under way.
MonitorCallerIdle == cm.joining = 0

\* ClipboardMonitor.start_monitoring, lines 48-62.  `start` records the
\* call: whether monitoring was on, what was returned and whether a loop
\* thread was started.
StartMonitoring(version, help) ==
    /\ MonitorCallerIdle
    /\ cm.monitoring \/ Len(cm.threads) < MaxLoops
    /\ LET called == [called |-> TRUE, monitoring |-> cm.monitoring,
                      result |-> FALSE, started |-> FALSE]
       IN  cm' =
             IF cm.monitoring \/ ~clipboard_is_available(version, help)
             THEN [cm EXCEPT !.start = called]
             ELSE [cm EXCEPT !.start = [called EXCEPT !.result = TRUE,
                                                      !.started = TRUE],
                             !.callback = TRUE,
                             !.monitoring = TRUE,
                             !.threads = Append(@, LoopThread),
                             !.monitor_thread = Len(cm.threads) + 1]
    /\ UNCHANGED <<eng_vars, pos_vars, bk_vars, cfg, cur, ui>>

\* ClipboardMonitor.stop_monitoring, lines 66-69: the flag is cleared and
\* the caller waits in join(timeout=1.0) for the thread of monitor_thread.
StopMonitoring ==
    /\ MonitorCallerIdle
    /\ cm.monitoring
    /\ cm' = [cm EXCEPT !.monitoring = FALSE, !.joining = cm.monitor_thread]
    /\ UNCHANGED <<eng_vars, pos_vars, bk_vars, cfg, cur, ui>>

\* join returns, because the thread has ended or because the timeout of
\* 1.0 s has passed while the thread is in the selection tool's subprocess
\* (up to 1 s), in the callback or asleep; stop_monitoring returns.
StopMonitoringReturn ==
    /\ cm.joining # 0
    /\ cm.threads[cm.joining].pc # "while"
    /\ cm' = [cm EXCEPT !.joining = 0,
                        !.threads = [i \in 1..Len(cm.threads) |->
                                        [cm.threads[i] EXCEPT !.stopped = TRUE]]]
    /\ UNCHANGED <<eng_vars, pos_vars, bk_vars, cfg, cur, ui>>

\* Line 74, `while self.monitoring:`, in loop thread i.
LoopWhile(i) ==
    /\ i \in 1..Len(cm.threads)
    /\ cm.threads[i].pc = "while"
    /\ cm' = [cm EXCEPT !.threads[i].pc =
                            IF cm.monitoring THEN "get" ELSE "ended",
                        !.threads[i].after_stop =
                            @ \/ (cm.monitoring /\ cm.threads[i].stopped)]
    /\ UNCHANGED <<eng_vars, pos_vars, bk_vars, cfg, cur, ui>>

\* Lines 76-80: the subprocess of _get_selection ends in `outcome` and the
\* selection read is tested against last_selection as it is now.  An
\* exception of _get_selection goes to line 88.
LoopGetSelection(i, outcome) ==
    /\ i \in 1..Len(cm.threads)
    /\ cm.threads[i].pc = "get"
    /\ cm.polls < MaxPolls
    /\ LET current_selection == get_selection(outcome)
           new == /\ ~current_selection.raised
                  /\ current_selection.value # <<>>
                  /\ current_selection.value[1] # <<>>
                  /\ current_selection.value[1] # cm.last_selection
                  /\ cm.min_length <= Len(current_selection.value[1])
                  /\ Len(current_selection.value[1]) <= cm.max_length
       IN  cm' = [cm EXCEPT !.polls = @ + 1,
                            !.threads[i].pc = IF new THEN "new" ELSE "sleep",
                            !.threads[i].new =
                                IF new THEN current_selection.value[1] ELSE <<>>]
    /\ UNCHANGED <<eng_vars, pos_vars, bk_vars, cfg, cur, ui>>

\* Lines 83-89: last_selection is set and the callback is called with the
\* selection; an exception of the callback is caught and logged.
LoopDeliver(i, callback_raises) ==
    /\ i \in 1..Len(cm.threads)
    /\ cm.threads[i].pc = "new"
    /\ cm' = [cm EXCEPT !.last_selection = cm.threads[i].new,
                        !.delivered = IF cm.callback
                                      THEN Append(@, cm.threads[i].new) ELSE @,
                        !.raised = @ \/ callback_raises,
                        !.threads[i].new = <<>>,
                        !.threads[i].after_stop = @ \/ cm.threads[i].stopped,
                        !.threads[i].pc = "sleep"]
    /\ UNCHANGED <<eng_vars, pos_vars, bk_vars, cfg, cur, ui>>

\* Line 91, time.sleep(self.polling_interval), has passed.
LoopSleep(i) ==
    /\ i \in 1..Len(cm.threads)
    /\ cm.threads[i].pc = "sleep"
    /\ cm' = [cm EXCEPT !.threads[i].pc = "while"]
    /\ UNCHANGED <<eng_vars, pos_vars, bk_vars, cfg, cur, ui>>


\* The parts of the application a specification leaves alone.
AppIdle == cfg = CfgInitial /\ cur = CurIdle /\ ui = UiIdle /\ cm = CmIdle

(***************************************************************************)
(* Specifications.  Spec is the engine with its two threads: the caller    *)
(* switching providers and the worker translating.  EnumSpec is the        *)
(* caller thread alone, switching providers and enumerating them.  PosSpec *)
(* is the positioner applied to every call of PosCalls.                    *)
(***************************************************************************)
EngineCtorArgs ==
    {[provider |-> <<>>, config |-> PyNone],
     [provider |-> <<"google">>, config |-> PyDict([api_key |-> <<"k">>])],
     [provider |-> <<"nonexistent">>, config |-> PyNone]}

EngineInit ==
    /\ eng_ctor \in EngineCtorArgs
    /\ heap = TranslationEngine(eng_ctor.provider, eng_ctor.config).heap
    /\ engine = TranslationEngine(eng_ctor.provider, eng_ctor.config).engine
    /\ sw = SwIdle
    /\ gap = GapIdle
    /\ tr = TrIdle
    /\ switches = 0

DefaultCtor == [text_height |-> <<>>, margin |-> <<>>, title_bar_height |-> <<>>]

Init ==
    /\ EngineInit
    /\ pos_ctor = DefaultCtor
    /\ positioner = WindowPositioner(<<>>, <<>>, <<>>)
    /\ pos_args = Call(800, 100, 420, 320, 1920, 1080)
    /\ pos_pc = "ready"
    /\ pos_result = <<0, 0>>
    /\ pos_again = <<0, 0>>
    /\ bc = BcIdle
    /\ AppIdle

Next ==
    \/ \E text \in Texts : TranslateCall(text)
    \/ TranslateDispatch
    \/ \E outcome \in BackendOutcomes : TranslateBackend(outcome)
    \/ TranslateReturn
    \/ \E name \in SwitchNames, config \in SwitchConfigs :
          SwitchProviderCall(name, config)
    \/ SwitchProviderUpdateConfig
    \/ SwitchProviderCreate
    \/ SwitchProviderReturn

Spec == Init /\ [][Next]_vars

EnumNext ==
    \/ \E name \in SwitchNames, config \in SwitchConfigs :
          SwitchProviderCall(name, config)
    \/ SwitchProviderUpdateConfig
    \/ SwitchProviderCreate
    \/ SwitchProviderReturn
    \/ \E probe \in Probes : GetAvailableProviders(probe)
    \/ GetAvailableProvidersReturn

EnumSpec == Init /\ [][EnumNext]_vars

\* The engines the backend calls are made on: the default engine, Apertium
\* with another or with an empty default pair, and the remote backends.
BackendCtorArgs ==
    {[provider |-> <<>>, config |-> PyNone],
     [provider |-> <<"apertium">>, config |-> PyDict([language_pair |-> "fra-eng"])],
     [provider |-> <<"apertium">>, config |-> PyDict([language_pair |-> ""])],
     [provider |-> <<"google">>, config |-> PyNone],
     [provider |-> <<"libretranslate">>, config |-> PyDict([api_key |-> <<"k">>])]}

\* The language arguments of TranslationEngine.__init__; <<>> is None.
SourceLangs == {<<>>, <<"es">>, <<"fr">>, <<"xx">>}
TargetLangs == {<<>>, <<"en">>, <<"fr">>}

\* Lines 24-25: `source_lang or TRANSLATION_CONFIG["source_lang"]`.
WithLanguages(eng, source_lang, target_lang) ==
    [eng EXCEPT
       !.source_lang = IF source_lang = <<>> THEN TRANSLATION_CONFIG.source_lang
                       ELSE source_lang[1],
       !.target_lang = IF target_lang = <<>> THEN TRANSLATION_CONFIG.target_lang
                       ELSE target_lang[1]]

BackendInit ==
    /\ eng_ctor \in [provider : {a.provider : a \in BackendCtorArgs},
                     config : {a.config : a \in BackendCtorArgs},
                     source_lang : SourceLangs, target_lang : TargetLangs]
    /\ [provider |-> eng_ctor.provider, config |-> eng_ctor.config]
           \in BackendCtorArgs
    /\ heap = TranslationEngine(eng_ctor.provider, eng_ctor.config).heap
    /\ engine = WithLanguages(
                   TranslationEngine(eng_ctor.provider, eng_ctor.config).engine,
                   eng_ctor.source_lang, eng_ctor.target_lang)
    /\ sw = SwIdle
    /\ gap = GapIdle
    /\ tr = TrIdle
    /\ switches = 0
    /\ pos_ctor = DefaultCtor
    /\ positioner = WindowPositioner(<<>>, <<>>, <<>>)
    /\ pos_args = Call(800, 100, 420, 320, 1920, 1080)
    /\ pos_pc = "ready"
    /\ pos_result = <<0, 0>>
    /\ pos_again = <<0, 0>>
    /\ bc = BcIdle
    /\ AppIdle

BackendNext ==
    \/ \E text \in Texts : ProviderTranslateCall(text)
    \/ \E outcome \in ListingOutcomes : ApertiumListing(outcome)
    \/ \E outcome \in RunOutcomes : ApertiumRun(outcome)
    \/ \E outcome \in HttpTranslateOutcomes : HttpRequest(outcome)
    \/ \E outcome \in SubprocessOutcomes \cup HttpOutcomes :
          EngineIsAvailable(outcome)
    \/ \E text \in WordTexts : GetWordCount(text)
    \/ BackendCallReturn

BackendSpec == BackendInit /\ [][BackendNext]_vars

PosInit ==
    /\ pos_ctor \in [text_height : CtorTextHeights, margin : CtorMargins,
                     title_bar_height : CtorTitleBarHeights]
    /\ positioner = WindowPositioner(pos_ctor.text_height, pos_ctor.margin,
                                     pos_ctor.title_bar_height)
    /\ pos_args \in PosCalls
    /\ pos_pc = "ready"
    /\ pos_result = <<0, 0>>
    /\ pos_again = <<0, 0>>
    /\ bc = BcIdle
    /\ AppIdle
    /\ eng_ctor = [provider |-> <<>>, config |-> PyNone]
    /\ heap = TranslationEngine(<<>>, PyNone).heap
    /\ engine = TranslationEngine(<<>>, PyNone).engine
    /\ sw = SwIdle
    /\ gap = GapIdle
    /\ tr = TrIdle
    /\ switches = 0

PosNext ==
    \/ CalculateWindowPosition
    \/ CalculateWindowPositionAgain

PosSpec == PosInit /\ [][PosNext]_vars

\* The engine, the positioner and the backend call as a specification of
\* the other parts of the application leaves them.
CoreIdle ==
    /\ eng_ctor = [provider |-> <<>>, config |-> PyNone]
    /\ heap = TranslationEngine(<<>>, PyNone).heap
    /\ engine = TranslationEngine(<<>>, PyNone).engine
    /\ sw = SwIdle
    /\ gap = GapIdle
    /\ tr = TrIdle
    /\ switches = 0
    /\ pos_ctor = DefaultCtor
    /\ positioner = WindowPositioner(<<>>, <<>>, <<>>)
    /\ pos_args = Call(800, 100, 420, 320, 1920, 1080)
    /\ pos_pc = "ready"
    /\ pos_result = <<0, 0>>
    /\ pos_again = <<0, 0>>
    /\ bc = BcIdle

\* ConfigSpec is the provider settings: the window constructed, settings
\* saved and loaded, providers switched.
ConfigInit ==
    /\ CoreIdle
    /\ cfg \in {[CfgInitial EXCEPT !.file = f] : f \in InitialFiles}
    /\ cur = CurIdle /\ ui = UiIdle /\ cm = CmIdle

ConfigNext ==
    \/ MainWindowInit
    \/ LoadCurrentConfig
    \/ \E p \in DOMAIN PROVIDER_CONFIGS, k \in ApiKeyEntries, u \in UrlEntries :
          SaveSettings(p, k, u)
    \/ \E p \in DOMAIN PROVIDER_CONFIGS, c \in SwitchOverrides :
          SwitchProviderShared(p, c)

ConfigSpec == ConfigInit /\ [][ConfigNext]_vars

\* CursorSpec is the placement of the window of the application, whose
\* positioner is WindowPositioner(), after a query of the cursor tool.
CursorInit ==
    /\ CoreIdle
    /\ cfg = CfgInitial
    /\ cur = CurIdle /\ ui = UiIdle /\ cm = CmIdle

CursorNext ==
    \/ \E outcome \in CursorOutcomes, screen \in Screens :
          PositionNearCursor(outcome, screen)
    \/ PositionNearCursorReturn

CursorSpec == CursorInit /\ [][CursorNext]_vars

\* UiSpec is the window's translation requests with their worker threads
\* and the UI thread.
UiInit ==
    /\ CoreIdle
    /\ cfg = CfgInitial
    /\ cur = CurIdle /\ ui = UiIdle /\ cm = CmIdle

UiNext ==
    \/ \E text \in RequestTexts : TranslateText(text)
    \/ \E i \in 1..MaxRequests, success \in BOOLEAN : TranslateWorker(i, success)
    \/ UpdateTranslationUi

UiSpec == UiInit /\ [][UiNext]_vars

\* MonitorSpec is one ClipboardMonitor with its caller and its loop
\* threads.
MonitorInit ==
    /\ CoreIdle
    /\ cfg = CfgInitial
    /\ cur = CurIdle /\ ui = UiIdle
    /\ cm \in {ClipboardMonitor(a.min_length, a.max_length) : a \in MonitorCtorArgs}

MonitorNext ==
    \/ \E version \in ToolProbeOutcomes, help \in ToolProbeOutcomes :
          StartMonitoring(version, help)
    \/ StopMonitoring
    \/ StopMonitoringReturn
    \/ \E i \in 1..MaxLoops :
          \/ LoopWhile(i)
          \/ \E outcome \in SelectionOutcomes : LoopGetSelection(i, outcome)
          \/ \E callback_raises \in BOOLEAN : LoopDeliver(i, callback_raises)
          \/ LoopSleep(i)

MonitorSpec == MonitorInit /\ [][MonitorNext]_vars

(***************************************************************************)
(* Claims about the engine, checked under Spec (C6: under EnumSpec).       *)
(***************************************************************************)
SwitchReturned == sw.pc = "done"

EngineAsBeforeSwitch ==
    /\ engine.provider_name = sw.pre.provider_name
    /\ engine.config = sw.pre.config
    /\ engine.provider = sw.pre.provider

\* C1 as stated: switch_provider with a name that is no key of
\* PROVIDER_CONFIGS (and a well-formed config) returns False and leaves the
\* active backend and provider_name as they were.
C1_UnknownNameRejected ==
    (/\ SwitchReturned
     /\ sw.name \notin DOMAIN PROVIDER_CONFIGS
     /\ sw.name # UnhashableName
     /\ sw.config.type \in {"NoneType", "dict"})
        => /\ sw.result = FALSE
           /\ engine.provider = sw.pre.provider
           /\ engine.provider_name = sw.pre.provider_name

\* C2 as stated: whenever switch_provider returns False, provider_name, the
\* override config and the active backend reference equal their values
\* before the call.
C2_FailedSwitchChangesNothing ==
    (SwitchReturned /\ sw.result = FALSE) => EngineAsBeforeSwitch

TranslateCompleted == tr.pc = "done" /\ tr.dispatched

\* C3 as stated: a translate call that ran while switch_provider ran
\* completes against the backend that was active when the call started.
C3_CompletesAgainstBackendAtStart ==
    TranslateCompleted => tr.backend = tr.start_provider

\* C3 amended: a translate call completes against the one backend object
\* the engine referred to when the call read self.provider (line 72), and
\* that object has the class and configuration it had then, whatever
\* switch_provider did meanwhile; it is the backend active at the start of
\* the call unless a switch installed another between the start and that
\* read.
C3_CompletesAgainstBackendAtDispatch ==
    TranslateCompleted
        => /\ tr.used = tr.seen
           /\ ~tr.overtaken => tr.backend = tr.start_provider

\* C3 witness: a call completed against the backend active at its start
\* while a switch installed a backend of another class during the call.
C3_Witness ==
    /\ TranslateCompleted
    /\ ~tr.overtaken
    /\ tr.backend = tr.start_provider
    /\ engine.provider # tr.backend
    /\ heap[engine.provider].cls # tr.used.cls

AllWhitespace(t) == \A i \in 1..Len(t) : t[i] \in Whitespace

\* C4: translate of an empty or whitespace-only text returns the failure
\* "Empty text provided" and never enters the backend's translate, in
\* every engine state.
C4_BlankTextNotDispatched ==
    (tr.pc # "idle" /\ AllWhitespace(tr.text))
        => /\ tr.pc = "done"
           /\ ~tr.dispatched
           /\ tr.result = EmptyTextResult

\* C4 witness: a whitespace-only text was rejected by an engine whose
\* backend had been switched.
C4_Witness ==
    /\ tr.pc = "done"
    /\ tr.text = <<" ", " ">>
    /\ ~tr.dispatched
    /\ engine.provider > 1

\* C5: for a text that is not blank and any behaviour of the backend,
\* translate returns a (success, message) pair and does not raise; when
\* the backend raised, success is False and the message holds the
\* exception's text.
C5_TranslateNeverRaises ==
    (tr.pc = "done" /\ ~AllWhitespace(tr.text))
        => /\ ~tr.result.raised
           /\ tr.result.success \in BOOLEAN
           /\ tr.outcome.raised
                => /\ ~tr.result.success
                   /\ \E i \in DOMAIN tr.result.message :
                          tr.result.message[i] = tr.outcome.error

\* C5 witness: the backend raised and translate returned the failure
\* carrying the exception's text.
C5_Witness ==
    /\ tr.pc = "done"
    /\ tr.outcome = Raises("boom")
    /\ tr.result = [raised |-> FALSE, success |-> FALSE,
                    message |-> <<"Unexpected error: ", "boom">>]

ProbeRaised(n) == is_available(ProviderClass(n), gap.probe[n]).raised

\* C6: get_available_providers does not raise and returns an entry for
\* every configured provider; a provider whose probe raised is reported
\* with available = False, and every other provider with the value its
\* probe returned.
C6_EnumerationSurvivesFailingProbe ==
    gap.pc = "done"
        => /\ ~gap.result.raised
           /\ DOMAIN gap.result.value = DOMAIN PROVIDER_CONFIGS
           /\ \A n \in DOMAIN PROVIDER_CONFIGS :
                 IF ProbeRaised(n)
                 THEN gap.result.value[n].available = FALSE
                 ELSE gap.result.value[n].available
                          = is_available(ProviderClass(n), gap.probe[n]).value

\* C6 witness: the Apertium probe raised, its entry says unavailable and
\* the entry of a provider probed after it says available.
C6_Witness ==
    /\ gap.pc = "done"
    /\ gap.probe["apertium"] = "PermissionError"
    /\ gap.result.value["apertium"].available = FALSE
    /\ gap.result.value["google"].available = TRUE
    /\ gap.result.value["libretranslate"].available = TRUE

(***************************************************************************)
(* Claims about calculate_window_position, checked under PosSpec.          *)
(***************************************************************************)
Returned == pos_pc = "returned"

UpperHalf == pos_args.cursor_y <= pos_args.screen_height \div 2

NonNegativeLayout ==
    /\ positioner.text_height >= 0
    /\ positioner.margin >= 0
    /\ positioner.title_bar_height >= 0

\* The popup fits between the line under the cursor and the bottom edge.
FitsBelow ==
    pos_args.cursor_y + positioner.text_height + positioner.margin
        + pos_args.window_height <= pos_args.screen_height

\* C7 as stated: in the upper half (ties included) the returned y is never
\* above the cursor, for all inputs.
C7_UpperHalfBelowCursor ==
    (Returned /\ UpperHalf) => pos_result[2] >= pos_args.cursor_y

\* C7 amended: in the upper half, with non-negative text_height and margin
\* and a popup that fits below the cursor (no bottom clamp), the returned y
\* is not above the cursor.
C7_UpperHalfBelowCursorWhenFits ==
    (Returned /\ UpperHalf /\ NonNegativeLayout /\ FitsBelow)
        => pos_result[2] >= pos_args.cursor_y

\* C7 witness: an upper-half call at the tie cursor_y = screen_height div 2
\* whose popup fits below and is placed strictly below the cursor.
C7_Witness ==
    /\ Returned /\ UpperHalf /\ NonNegativeLayout /\ FitsBelow
    /\ pos_args.cursor_y = pos_args.screen_height \div 2
    /\ pos_args.cursor_y > positioner.margin
    /\ pos_result[2] > pos_args.cursor_y

\* C8 as stated: in the lower half the returned y is never below the
\* cursor, for all inputs, clamped or not.
C8_LowerHalfAboveCursor ==
    (Returned /\ ~UpperHalf) => pos_result[2] <= pos_args.cursor_y

\* C8 amended: in the lower half, with non-negative layout constants and
\* popup height and a cursor at least margin below the top edge, the
\* returned y is not below the cursor, clamped or not.
C8_LowerHalfAboveCursorWhenRoom ==
    (/\ Returned /\ ~UpperHalf /\ NonNegativeLayout
     /\ pos_args.window_height >= 0
     /\ positioner.margin <= pos_args.cursor_y)
        => pos_result[2] <= pos_args.cursor_y

\* C8 witness: a lower-half call on which the top clamp was applied (the
\* unclamped y is negative and the result is the margin).
C8_Witness ==
    /\ Returned /\ ~UpperHalf /\ NonNegativeLayout
    /\ pos_args.window_height >= 0
    /\ positioner.margin <= pos_args.cursor_y
    /\ pos_args.cursor_y - positioner.text_height - pos_args.window_height
         - 2 * positioner.margin - positioner.title_bar_height < 0
    /\ pos_result[2] = positioner.margin

\* C9 as stated: with the cursor on the screen and a popup no larger than
\* the screen, the returned rectangle lies inside the screen.
C9_PopupInsideScreen ==
    (/\ Returned /\ NonNegativeLayout
     /\ 0 <= pos_args.cursor_x /\ pos_args.cursor_x <= pos_args.screen_width
     /\ 0 <= pos_args.cursor_y /\ pos_args.cursor_y <= pos_args.screen_height
     /\ 0 <= pos_args.window_width
     /\ pos_args.window_width <= pos_args.screen_width
     /\ 0 <= pos_args.window_height
     /\ pos_args.window_height <= pos_args.screen_height)
        => /\ 0 <= pos_result[1]
           /\ pos_result[1] + pos_args.window_width <= pos_args.screen_width
           /\ 0 <= pos_result[2]
           /\ pos_result[2] + pos_args.window_height <= pos_args.screen_height

DefaultLayout == [text_height |-> 25, margin |-> 15, title_bar_height |-> 30]

\* C10: with text_height 25, margin 15, title_bar_height 30, a 1920x1080
\* screen and a 420x320 popup, the cursor at (800, 100) gives (800, 140) and
\* the cursor at (1800, 1000) gives (1490, 595).
C10_ConcreteScenarios ==
    (Returned /\ positioner = DefaultLayout)
        => /\ pos_args = Call(800, 100, 420, 320, 1920, 1080)
                => pos_result = <<800, 140>>
           /\ pos_args = Call(1800, 1000, 420, 320, 1920, 1080)
                => pos_result = <<1490, 595>>

\* C10 witness: the second scenario has been computed by a positioner
\* built from the configured defaults.
C10_Witness ==
    /\ Returned /\ positioner = DefaultLayout
    /\ pos_ctor = DefaultCtor
    /\ pos_args = Call(1800, 1000, 420, 320, 1920, 1080)

\* C11: calculate_window_position is pure.  A second call with the same
\* arguments on the same positioner returns what the first call returned,
\* and after a call the positioner's fields are those its constructor set
\* and the rest of the state (the engine, its backends, the calls on them)
\* is as it was before the call.
C11_PureFunction ==
    /\ pos_pc # "ready" =>
          /\ positioner = WindowPositioner(pos_ctor.text_height, pos_ctor.margin,
                                           pos_ctor.title_bar_height)
          /\ heap = TranslationEngine(eng_ctor.provider, eng_ctor.config).heap
          /\ engine = TranslationEngine(eng_ctor.provider, eng_ctor.config).engine
          /\ sw = SwIdle /\ gap = GapIdle /\ tr = TrIdle /\ bc = BcIdle
    /\ pos_pc = "returned again" => pos_again = pos_result

\* The second concrete scenario computed twice.
C11_Witness ==
    /\ pos_pc = "returned again"
    /\ pos_ctor = DefaultCtor
    /\ pos_args = Call(1800, 1000, 420, 320, 1920, 1080)
    /\ pos_again = <<1490, 595>>

\* C18: for all integer inputs the result equals the reference algorithm:
\* x = cursor_x; y = cursor_y + text_height + margin when cursor_y <=
\* screen_height div 2 (a tie included), else y = cursor_y - text_height -
\* popup_height - 2*margin - title_bar_height; then x = screen_width -
\* popup_width - 10 when x + popup_width > screen_width; then y = margin
\* when y < 0, else y = screen_height - popup_height - margin when
\* y + popup_height > screen_height.
C18_EqualsReference ==
    Returned =>
        LET a == pos_args
            p == positioner
            x == a.cursor_x
            y == IF a.cursor_y <= a.screen_height \div 2
                 THEN a.cursor_y + p.text_height + p.margin
                 ELSE a.cursor_y - p.text_height - a.window_height
                      - 2 * p.margin - p.title_bar_height
            xc == IF x + a.window_width > a.screen_width
                  THEN a.screen_width - a.window_width - 10 ELSE x
            yc == IF y < 0 THEN p.margin
                  ELSE IF y + a.window_height > a.screen_height
                       THEN a.screen_height - a.window_height - p.margin
                       ELSE y
        IN  pos_result = <<xc, yc>>

\* A lower-half call on which both clamps act: the popup is too wide for
\* the screen at the cursor and would start above the top edge.
C18_Witness ==
    /\ Returned
    /\ pos_args.cursor_y > pos_args.screen_height \div 2
    /\ pos_args.cursor_x + pos_args.window_width > pos_args.screen_width
    /\ pos_args.cursor_y - positioner.text_height - pos_args.window_height
         - 2 * positioner.margin - positioner.title_bar_height < 0
    /\ positioner.margin # 0
    /\ pos_result = <<pos_args.screen_width - pos_args.window_width - 10,
                      positioner.margin>>

(***************************************************************************)
(* Claims about the calls through the active backend, checked under        *)
(* BackendSpec.                                                            *)
(***************************************************************************)
TranslateEnded == bc.op = "translate" /\ bc.pc = "done"

\* The outbound call that carries the text (the translation subprocess or
\* the HTTP request) exceeded its timeout.
OutboundTimedOut ==
    bc.outcome.kind = "raise" /\ bc.outcome.exc \in TimeoutExceptions

\* No outbound call of the translate call was issued a second time.
NoRetry ==
    \A i, j \in 1..Len(bc.runs) : bc.runs[i] = bc.runs[j] => i = j

\* C12: when the outbound call (subprocess or HTTP request) of a backend's
\* translate exceeds its timeout, translate returns (it does not hang or
\* raise) a failure whose reason is the timeout, and no outbound call has
\* been issued twice.
C12_TimeoutReportedAsTimeout ==
    (TranslateEnded /\ OutboundTimedOut) =>
        /\ ~bc.result.raised
        /\ ~bc.result.success
        /\ bc.result.message = <<Lit("Translation timeout")>>
        /\ NoRetry

DefaultEngine ==
    eng_ctor = [provider |-> <<>>, config |-> PyNone,
                source_lang |-> <<>>, target_lang |-> <<>>]

ToolExitedZero ==
    /\ TranslateEnded
    /\ ~IsBlankText(bc.text)
    /\ bc.outcome.kind = "exit" /\ bc.outcome.code = 0

OnlyReversedListed ==
    /\ bc.listing.kind = "exit" /\ bc.listing.code = 0
    /\ \E i \in 1..Len(bc.listing.stdout) : bc.listing.stdout[i] = "spa-eng"
    /\ \A i \in 1..Len(bc.listing.stdout) : bc.listing.stdout[i] # "eng-spa"

C14_NonZeroExitIsFailure ==
    (TranslateEnded /\ bc.outcome.kind = "exit" /\ bc.outcome.code # 0) =>
        /\ ~bc.result.raised
        /\ ~bc.result.success
        /\ Len(bc.result.message) = 2
        /\ bc.result.message[1] = Lit("Translation error: ")
        /\ bc.result.message[2] =
             IF Strip(bc.outcome.stderr) = <<>> THEN Lit("Translation failed")
             ELSE Txt(Strip(bc.outcome.stderr))

C14_Witness ==
    /\ TranslateEnded
    /\ bc.outcome = Exit(1, <<>>, <<"a", " ">>)
    /\ bc.result.message = <<Lit("Translation error: "), Txt(<<"a">>)>>

\* C15: TranslationEngine.is_available never raises; it returns True when
\* the probe of the external tool exits with code 0 (or the remote service
\* answers 200) and False when the tool is missing, the probe times out,
\* or the probe raises any other exception.
C15_IsAvailableNeverRaises ==
    (bc.op = "is_available" /\ bc.pc = "done") =>
        /\ ~bc.available.raised
        /\ bc.probe \in {"exit0", "200"} => bc.available.value = TRUE
        /\ bc.probe \in {"FileNotFoundError", "TimeoutExpired",
                         "PermissionError", "URLError"}
              => bc.available.value = FALSE

\* The probe of the Apertium backend raises an exception that the backend
\* does not catch itself.
C15_Witness ==
    /\ bc.op = "is_available" /\ bc.pc = "done"
    /\ heap[engine.provider].cls = "ApertiumProvider"
    /\ bc.probe = "PermissionError"
    /\ bc.available = Returns(FALSE)

\* The words of a text: the positions at which a run of non-whitespace
\* characters starts.
WordStarts(t) ==
    {i \in 1..Len(t) : t[i] \notin Whitespace /\ (i = 1 \/ t[i - 1] \in Whitespace)}

WordCounted == bc.op = "get_word_count" /\ bc.pc = "done"

Listed ==
    IF bc.listing.kind = "exit" /\ bc.listing.code = 0
    THEN {bc.listing.stdout[i] : i \in 1..Len(bc.listing.stdout)}
         \ ({""} \cup CommentLines)
    ELSE {"eng-spa", "spa-eng", "eng-fra", "fra-eng", "eng-cat", "cat-eng"}

Mapped(lang) ==
    CASE lang = "en" -> "eng" [] lang = "es" -> "spa" [] lang = "fr" -> "fra"
      [] OTHER -> lang

C17_UnknownNameAtConstruction ==
    (eng_ctor.provider # <<>> /\ eng_ctor.provider[1] \notin DOMAIN PROVIDER_CONFIGS) =>
        /\ heap # <<>>
        /\ heap[1].cls = "ApertiumProvider"
        /\ heap[1].config =
             Update(PROVIDER_CONFIGS.apertium,
                    IF Truthy(eng_ctor.config) THEN eng_ctor.config.items
                    ELSE EmptyDict)
        /\ switches = 0 =>
             engine.provider = 1 /\ engine.provider_name = eng_ctor.provider[1]

\* A translate call on such an engine is dispatched to the Apertium backend.
C17_Witness ==
    /\ eng_ctor.provider = <<"nonexistent">>
    /\ switches = 0
    /\ tr.pc = "backend"
    /\ tr.backend = 1
    /\ tr.seen.cls = "ApertiumProvider"

\* C19: after a successful switch_provider(name, config) for a configured
\* provider, the new backend's configuration is the defaults of `name`
\* overridden by the config of this call and nothing else.
C19_NewBackendConfigIsDefaultsPlusOverride ==
    (SwitchReturned /\ sw.result /\ sw.name \in DOMAIN PROVIDER_CONFIGS) =>
        heap[engine.provider].config =
            Update(PROVIDER_CONFIGS[sw.name],
                   IF Truthy(sw.config) THEN sw.config.items ELSE EmptyDict)

(***************************************************************************)
(* Claims about what the backends send and report, checked under           *)
(* BackendSpec.                                                            *)
(***************************************************************************)
\* t has no leading and no trailing whitespace.
Trimmed(t) == t = <<>> \/ (t[1] \notin Whitespace /\ t[Len(t)] \notin Whitespace)

\* t is s with nothing but whitespace removed from its two ends.
TrimOf(t, s) ==
    /\ Trimmed(t)
    /\ \E i \in 1..(Len(s) + 1) :
          /\ i + Len(t) - 1 <= Len(s)
          /\ t = SubSeq(s, i, i + Len(t) - 1)
          /\ \A k \in 1..Len(s) :
                (k < i \/ k > i + Len(t) - 1) => s[k] \in Whitespace

\* What the outside answered with: the tool's output or the translation
\* the response carried.
Answered ==
    IF bc.outcome.kind = "exit" THEN bc.outcome.stdout
    ELSE IF bc.outcome.kind = "response" THEN bc.outcome.body.translation
    ELSE <<>>

\* C21: every backend's translate rejects empty or whitespace-only text with
\* a failure before any outbound call; every text it sends out is the given
\* text with leading and trailing whitespace removed; and a successful
\* result is the answer with leading and trailing whitespace removed.
C21_StrippedInAndOut ==
    bc.op = "translate" =>
        /\ AllWhitespace(bc.text) =>
             /\ bc.pc = "done"
             /\ bc.runs = <<>>
             /\ ~bc.result.raised /\ ~bc.result.success
        /\ \A i \in 1..Len(bc.runs) :
             bc.runs[i].input # <<>> =>
                /\ Len(bc.runs[i].input) = 1
                /\ TrimOf(bc.runs[i].input[1], bc.text)
                /\ bc.runs[i].input[1] # <<>>
        /\ (bc.pc = "done" /\ bc.result.success) =>
             /\ Len(bc.result.message) = 1
             /\ bc.result.message[1] \in [chars : Texts]
             /\ TrimOf(bc.result.message[1].chars, Answered)

\* A remote backend was sent "a" for " a" and answered "a ", which translate
\* returned as "a".
C21_Witness ==
    /\ TranslateEnded
    /\ heap[engine.provider].cls \in {"GoogleProvider", "LibreTranslateProvider"}
    /\ bc.text = <<" ", "a">>
    /\ bc.runs[1].input = <<(<<"a">>)>>
    /\ bc.outcome = Response("200", [json |-> TRUE, translation |-> <<"a", " ">>])
    /\ bc.result.success
    /\ bc.result.message = <<Txt(<<"a">>)>>

\* The active backend speaks to a remote HTTP service.
RemoteBackend ==
    heap[engine.provider].cls \in {"GoogleProvider", "LibreTranslateProvider"}

\* What went wrong with an HTTP request: the service answered with a status
\* outside 2xx (urlopen raises HTTPError for it), the answer could not be
\* parsed into a translation, or the transport failed.
FaultOf(outcome) ==
    IF outcome.kind = "response"
    THEN IF outcome.status = "200" /\ parse_response(outcome.body) = <<>>
         THEN "parse" ELSE "none"
    ELSE IF outcome.exc = "HTTPError 500" THEN "status" ELSE "transport"

\* The reason of a failure: the literal its message starts with.
ReasonOf(result) == result.message[1]

\* C22: for the remote HTTP backends, a non-2xx response, an unparsable
\* response and a transport-level network fault yield failures with
\* pairwise different reasons, and none of them leaves translate as an
\* exception.
C22_DistinctFailureReasons ==
    (TranslateEnded /\ RemoteBackend /\ bc.outcome.kind # "none"
         /\ FaultOf(bc.outcome) # "none") =>
        /\ ~bc.result.raised
        /\ ~bc.result.success
        /\ \A other \in HttpTranslateOutcomes :
              (FaultOf(other) \notin {"none", FaultOf(bc.outcome)}) =>
                 ReasonOf(bc.result) # ReasonOf(http_translate_result(other))

(***************************************************************************)
(* Claims about the engine's name and backend, checked under Spec.         *)
(***************************************************************************)
\* C26: in every engine state between calls, reached by construction and
\* any sequence of switch_provider calls (successful or not), provider_name
\* names the provider whose backend is installed as the active backend.
C26_NameMatchesBackend ==
    sw.pc \in {"idle", "done"} =>
        /\ engine.provider_name \in DOMAIN PROVIDER_CONFIGS
        /\ heap[engine.provider].cls = ProviderClass(engine.provider_name)

(***************************************************************************)
(* Claims about the positioner's layout constants, checked under PosSpec.  *)
(***************************************************************************)
\* The constant a caller supplied, or the configured default when the
\* argument was left out.
Supplied(arg, default) == IF arg = <<>> THEN default ELSE arg[1]

\* C30: a WindowPositioner constructed with explicit layout constants uses
\* exactly those values in calculate_window_position, for every integer
\* including 0; the configured defaults are used only for the constants
\* that were not supplied.
C30_ExplicitConstantsUsed ==
    Returned =>
        pos_result =
            calculate_window_position(
                [text_height |-> Supplied(pos_ctor.text_height,
                                          POSITIONING_CONFIG.text_height),
                 margin |-> Supplied(pos_ctor.margin, POSITIONING_CONFIG.margin),
                 title_bar_height |-> Supplied(pos_ctor.title_bar_height,
                                          POSITIONING_CONFIG.title_bar_height)],
                pos_args.cursor_x, pos_args.cursor_y,
                pos_args.window_width, pos_args.window_height,
                pos_args.screen_width, pos_args.screen_height)

(***************************************************************************)
(* Claims about the timeouts of the outbound calls, checked under          *)
(* BackendSpec.                                                            *)
(***************************************************************************)
\* C23: every outbound call a backend makes (the translation subprocess,
\* the pair listing, the availability probe, the HTTP request) carries a
\* timeout, and its value is the timeout of the active backend's
\* configuration.
C23_TimeoutFromConfiguration ==
    \A i \in 1..Len(bc.runs) :
        bc.runs[i].timeout = Get(heap[engine.provider].config, "timeout", 10)

(***************************************************************************)
(* Claims about the provider settings, checked under ConfigSpec.           *)
(***************************************************************************)
\* C24: whatever is done to the provider settings after a backend has been
\* constructed (get_config merging the user's file into PROVIDER_CONFIGS,
\* settings saved from the settings window, a later switch_provider), the
\* configuration every constructed backend holds, and the timeout it read
\* from it, are the ones it was constructed with.
C24_BackendConfigNeverChanges ==
    \A b \in 1..Len(cfg.backends) :
        /\ cfg.dicts[cfg.backends[b].config] = cfg.backends[b].held
        /\ cfg.backends[b].timeout = Get(cfg.backends[b].held, "timeout", 10)
        /\ \A n \in DOMAIN shared : cfg.backends[b].config # shared[n]
        /\ cfg.backends[b].config # cfg.engine.config

\* A Google backend was constructed with the default settings; since then
\* the entry of PROVIDER_CONFIGS for Google has been given an API key, and
\* a switch with a timeout has installed another Google backend.
C24_Witness ==
    /\ Len(cfg.backends) = 3
    /\ cfg.backends[1].cls = "GoogleProvider"
    /\ cfg.backends[1].held.api_key = <<>>
    /\ cfg.backends[1].timeout = 15
    /\ cfg.dicts[shared.google].api_key = <<"k1">>
    /\ cfg.backends[3].cls = "GoogleProvider"
    /\ cfg.backends[3].timeout = 5
    /\ cfg.engine.provider = 3

(***************************************************************************)
(* Claims about the cursor query and the placement, checked under          *)
(* CursorSpec.                                                             *)
(***************************************************************************)
\* The part of line i of the tool's stripped output after its first '=';
\* <<>> when there is no such line or no '=' on it.
ValueText(out, i) ==
    LET s == Strip(out)
        breaks == {k \in 1..Len(s) : s[k] = "\n"}
        start == IF i = 1 THEN 1
                 ELSE IF breaks = {} THEN Len(s) + 1
                 ELSE (CHOOSE k \in breaks : \A j \in breaks : k <= j) + 1
        after == {k \in breaks : k >= start}
        stop == IF after = {} THEN Len(s)
                ELSE (CHOOSE k \in after : \A j \in after : k <= j) - 1
        eqs == {k \in start..stop : s[k] = "="}
    IN  IF eqs = {} THEN <<>>
        ELSE SubSeq(s, (CHOOSE k \in eqs : \A j \in eqs : k <= j) + 1, stop)

\* The output has no number where the X or the Y coordinate is expected.
Unparsable(out) ==
    \E i \in 1..2 : \A k \in 1..Len(ValueText(out, i)) :
        ~IsDigit(ValueText(out, i)[k])

\* The cursor tool is missing, timed out, exited non-zero or printed
\* unparsable output.
CursorUnavailable ==
    \/ cur.outcome.kind = "raise"
         /\ cur.outcome.exc \in {"FileNotFoundError", "TimeoutExpired"}
    \/ cur.outcome.kind = "exit" /\ cur.outcome.code # 0
    \/ cur.outcome.kind = "exit" /\ cur.outcome.code = 0
         /\ Unparsable(cur.outcome.stdout)

\* C25: get_cursor_position returns a pair of integers or None; it returns
\* None, and does not raise, when the cursor tool is missing, times out,
\* exits non-zero or prints unparsable output; and when it returns None the
\* window is centred on the screen and calculate_window_position is not
\* called.
C25_NoPositionMeansCentred ==
    cur.pc = "placed" =>
        /\ ~cur.position.raised =>
             \/ cur.position.value = <<>>
             \/ /\ Len(cur.position.value) = 2
                /\ cur.position.value[1] \in Int
                /\ cur.position.value[2] \in Int
        /\ CursorUnavailable => cur.position = Returns(<<>>)
        /\ cur.position = Returns(<<>>) =>
             cur.placement = Center /\ cur.calls = <<>>

\* The tool printed X=12 and Y=a: no position, the window is centred.
C25_Witness ==
    /\ cur.pc = "placed"
    /\ cur.outcome.kind = "exit" /\ cur.outcome.code = 0
    /\ ValueText(cur.outcome.stdout, 1) = <<"1", "2">>
    /\ ValueText(cur.outcome.stdout, 2) = <<"a">>
    /\ cur.position = Returns(<<>>)
    /\ cur.placement = Center
    /\ cur.calls = <<>>

(***************************************************************************)
(* Claims about the window's translation requests, checked under UiSpec.   *)
(***************************************************************************)
\* Every worker has posted its result and the UI thread has run every
\* posted callback.
AllRequestsSettled ==
    /\ ui.requests # <<>>
    /\ \A i \in 1..Len(ui.workers) : ui.workers[i] = "posted"
    /\ ui.idle = <<>>

\* C27: when several translation requests have been started one after
\* another, each on its own worker thread, the translation displayed once
\* all of them have ended is the result for the most recently requested
\* text, whatever order the workers finish in.
C27_LastRequestDisplayed ==
    AllRequestsSettled => ui.displayed.of = ui.requests[Len(ui.requests)]

(***************************************************************************)
(* Claims about the clipboard monitor, checked under MonitorSpec.          *)
(***************************************************************************)
\* The loop threads that have not ended and are past the test of the flag:
\* reading the selection, testing it, delivering it or asleep before the
\* next round.
LoopsRunning ==
    {i \in 1..Len(cm.threads) : cm.threads[i].pc \notin {"while", "ended"}}

\* C28: for any sequence of start_monitoring and stop_monitoring calls on
\* one ClipboardMonitor, at most one loop thread is polling at any time:
\* start_monitoring called while monitoring is on returns False and starts
\* no thread, and no loop thread begins another round of polling or calls
\* the callback after a stop_monitoring that followed its start has
\* returned, even when start_monitoring is called again at once.
C28_OneLoopAtATime ==
    /\ (cm.start.called /\ cm.start.monitoring) =>
          ~cm.start.result /\ ~cm.start.started
    /\ Cardinality(LoopsRunning) <= 1
    /\ \A i \in 1..Len(cm.threads) : ~cm.threads[i].after_stop

\* C29: the callback is called only with a non-empty selection whose length
\* lies in [min_length, max_length] and that differs from the selection
\* delivered before it; last_selection is the last selection delivered, so
\* no selection read out of range or unreadable has changed it; and a loop
\* thread ends only by finding the flag cleared, not through an exception
\* of the callback.
C29_OnlyNewSelectionsDelivered ==
    /\ \A k \in 1..Len(cm.delivered) :
          /\ cm.delivered[k] # <<>>
          /\ cm.min_length <= Len(cm.delivered[k])
          /\ Len(cm.delivered[k]) <= cm.max_length
          /\ k > 1 => cm.delivered[k] # cm.delivered[k - 1]
    /\ cm.last_selection =
          IF cm.delivered = <<>> THEN <<>>
          ELSE cm.delivered[Len(cm.delivered)]
    /\ \A i \in 1..Len(cm.threads) :
          cm.threads[i].pc = "ended" => (~cm.monitoring \/ cm.monitor_thread # i)

====
